---- MODULE Spec2Model ----
(***************************************************************************)
(* A model of the Claude usage dashboard analyzer (claude-analyzer-v2.py,  *)
(* class ClaudeAnalyzer and main).                                         *)
(*                                                                         *)
(* JSON values are tagged records, so that an absent key, a JSON null, a   *)
(* string and a number stay distinguishable the way dict.get() and         *)
(* Python's truthiness distinguish them.  Text is a sequence of one-       *)
(* character strings, so that len(), slicing and str.replace() are         *)
(* computed and not assumed.  An exception is a result with raised = TRUE. *)
(***************************************************************************)
EXTENDS Integers, Sequences, FiniteSets, TLC

VARIABLES
    json_files,     \* load_conversation_data: the *.json files, in glob order
    jsonl_files,    \* load_conversation_data: the *.jsonl files, in glob order
    now,            \* datetime.now(timezone.utc) of this run, seconds since 2024-01-01T00:00:00Z
    pc,             \* position of main(): "load_json", "load_jsonl", "loaded", "analyzed",
                    \* "rendered", "done"; "crashed" and "render_failed" when an exception
                    \* left the load or the rendering; "idle" when the program is not run
    fi,             \* index of the next file of the list being processed
    conversations,  \* self.conversations
    usage_stats,    \* self.usage_stats
    display,        \* generate_enhanced_html: display_conversations, as embedded
    failed,         \* history: the files whose processing raised (the except branches)
    before,         \* history: self.conversations when the last file was started
    analyzed,       \* history: analyze_usage_patterns has been called in this run
    rendered,       \* history: generate_enhanced_html has been called in this run
    prev,           \* history: analyzed and usage_stats at the end of the previous run
    exit_code,      \* the exit status of the process, -1 while main() is running
    printed,        \* the messages written to standard output that tell how the run ended
    args_file,      \* analyze_claude_usage.py: args.file
    spc,            \* analyze_claude_usage.py: position of main()
    data,           \* analyze_claude_usage.py: data of main(), the result of load_jsonl
    analysis        \* analyze_claude_usage.py: analysis of main()

analyzer_vars ==
    <<json_files, jsonl_files, now, pc, fi, conversations, usage_stats,
      display, failed, before, analyzed, rendered, prev>>

simple_vars == <<args_file, spc, data, analysis>>

vars == <<analyzer_vars, simple_vars, exit_code, printed>>

----------------------------------------------------------------------------
(* Bounds of the model *)

MaxLines == 3

(* Program constants *)

CharsPerToken == 4
ActiveSeconds == 300
RecentSeconds == 3600
SecondsPerDay == 86400
ContextMessages == 3
ContextChars == 500
DisplayLimit == 50
DisplayChars == 500

----------------------------------------------------------------------------
(* JSON scalars: k is "absent" (no such key), "null", "str" or "num" *)

JAbsent == [k |-> "absent", s |-> "", n |-> 0]
JNull == [k |-> "null", s |-> "", n |-> 0]
JStr(str) == [k |-> "str", s |-> str, n |-> 0]
JNum(num) == [k |-> "num", s |-> "", n |-> num]

\* dict.get(key, default): the default only when the key is absent (a null stays None)
Get(v, default) == IF v.k = "absent" THEN default ELSE v

\* Python truthiness of a scalar
Truthy(v) ==
    CASE v.k = "str" -> v.s # ""
      [] v.k = "num" -> v.n # 0
      [] OTHER -> FALSE

(* Text: a sequence of one-character strings *)

\* c * count
Rep(c, count) == [i \in 1..count |-> c]

\* content values: k is "absent", "null", "str" (text in s) or "list" (parts)
CAbsent == [k |-> "absent", s |-> <<>>, parts |-> <<>>]
CNull == [k |-> "null", s |-> <<>>, parts |-> <<>>]
CStr(text) == [k |-> "str", s |-> text, parts |-> <<>>]
CList(parts) == [k |-> "list", s |-> <<>>, parts |-> parts]

\* str(content): a string is itself, None prints as "None"; the repr of a list is
\* not computed (the inputs give list content to assistant entries only, whose
\* parts are joined into a string before str() sees them)
StrOf(c) ==
    CASE c.k = "str" -> c.s
      [] c.k = "null" -> <<"N", "o", "n", "e">>
      [] OTHER -> <<>>

----------------------------------------------------------------------------
(* datetime.fromisoformat(ts.replace('Z', '+00:00')) on the timestamps the *)
(* inputs use.  rank is the position of the raw string in lexicographic    *)
(* order (the order Python's sort and sorted compare strings by), instant  *)
(* the UTC second it denotes (for a naive one, the second it is written    *)
(* with), date and hour the calendar date and the hour it is written with. *)

IsoTable ==
    [s \in {"2024-01-01T00:00:00", "2024-01-01T00:00:00Z",
            "2024-01-01T23:00:00-02:00", "2024-01-02T00:00:00Z"} |->
        CASE s = "2024-01-01T00:00:00" ->
                [rank |-> 2, aware |-> FALSE, instant |-> 0, date |-> "2024-01-01",
                 hour |-> 0]
          [] s = "2024-01-01T00:00:00Z" ->
                [rank |-> 3, aware |-> TRUE, instant |-> 0, date |-> "2024-01-01",
                 hour |-> 0]
          [] s = "2024-01-01T23:00:00-02:00" ->
                [rank |-> 4, aware |-> TRUE, instant |-> 90000, date |-> "2024-01-01",
                 hour |-> 23]
          [] s = "2024-01-02T00:00:00Z" ->
                [rank |-> 5, aware |-> TRUE, instant |-> 86400, date |-> "2024-01-02",
                 hour |-> 0]]

\* does fromisoformat accept the text
Parses(s) == s \in DOMAIN IsoTable

\* position of a string in lexicographic order ("" first, "1900..." next, letters last)
LexRank(s) ==
    CASE s = "" -> 0
      [] s = "1900-01-01T00:00:00Z" -> 1
      [] s \in DOMAIN IsoTable -> IsoTable[s].rank
      [] OTHER -> 6

----------------------------------------------------------------------------
(* ClaudeAnalyzer.estimate_tokens *)

estimate_tokens(content) ==
    IF content.k \in {"absent", "null"} \/ StrOf(content) = <<>>
    THEN 0
    ELSE Len(StrOf(content)) \div CharsPerToken

(* ClaudeAnalyzer.determine_conversation_status.  The result is a status,  *)
(* or "RAISED" if an exception left the method.                            *)

\* timedelta.seconds: the seconds field of the normalised difference (0 .. 86399)
TimedeltaSeconds(diff) == diff % SecondsPerDay

determine_conversation_status_unguarded(last_activity, clock) ==
    IF ~Truthy(last_activity) THEN "unknown"
    ELSE IF last_activity.k # "str" THEN "RAISED"
    ELSE IF ~Parses(last_activity.s) THEN "RAISED"
    ELSE IF ~IsoTable[last_activity.s].aware THEN "RAISED"
    ELSE LET seconds == TimedeltaSeconds(clock - IsoTable[last_activity.s].instant)
         IN  IF seconds < ActiveSeconds THEN "active"
             ELSE IF seconds < RecentSeconds THEN "recent"
             ELSE "inactive"

determine_conversation_status(last_activity, clock) ==
    IF ~Truthy(last_activity) THEN "unknown"
    \* inside try: .replace on a non-string, fromisoformat on an unparseable
    \* string and aware - naive all raise, and the bare except returns 'unknown'
    ELSE IF last_activity.k # "str" THEN "unknown"
    ELSE IF ~Parses(last_activity.s) THEN "unknown"
    ELSE IF ~IsoTable[last_activity.s].aware THEN "unknown"
    ELSE LET seconds == TimedeltaSeconds(clock - IsoTable[last_activity.s].instant)
         IN  IF seconds < ActiveSeconds THEN "active"
             ELSE IF seconds < RecentSeconds THEN "recent"
             ELSE "inactive"

----------------------------------------------------------------------------
(* ClaudeAnalyzer.extract_project_context *)

ContextRules ==
    <<
    [label |-> "python", terms |-> <<
        <<"p", "y", "t", "h", "o", "n">>,
        <<".", "p", "y">>,
        <<"i", "m", "p", "o", "r", "t", " ">>,
        <<"d", "e", "f", " ">>>>],
    [label |-> "javascript", terms |-> <<
        <<"j", "a", "v", "a", "s", "c", "r", "i", "p", "t">>,
        <<".", "j", "s">>,
        <<"n", "p", "m">>,
        <<"n", "o", "d", "e">>>>],
    [label |-> "react", terms |-> <<
        <<"r", "e", "a", "c", "t">>,
        <<"j", "s", "x">>,
        <<"c", "o", "m", "p", "o", "n", "e", "n", "t">>>>],
    [label |-> "web", terms |-> <<
        <<"h", "t", "m", "l">>,
        <<"c", "s", "s">>,
        <<"w", "e", "b">>,
        <<"w", "e", "b", "s", "i", "t", "e">>>>],
    [label |-> "debugging", terms |-> <<
        <<"d", "e", "b", "u", "g">>,
        <<"e", "r", "r", "o", "r">>,
        <<"b", "u", "g">>,
        <<"f", "i", "x">>>>],
    [label |-> "data", terms |-> <<
        <<"d", "a", "t", "a">>,
        <<"a", "n", "a", "l", "y", "s", "i", "s">>,
        <<"c", "s", "v">>,
        <<"p", "a", "n", "d", "a", "s">>>>]
    >>

UpperCase == <<"A", "B", "C", "D", "E", "F", "G", "H", "I", "J", "K", "L", "M", "N", "O", "P", "Q", "R", "S", "T", "U", "V", "W", "X", "Y", "Z">>
LowerCase == <<"a", "b", "c", "d", "e", "f", "g", "h", "i", "j", "k", "l", "m", "n", "o", "p", "q", "r", "s", "t", "u", "v", "w", "x", "y", "z">>

\* str.lower() of one character
Lower(c) ==
    IF \E i \in 1..Len(UpperCase) : UpperCase[i] = c
    THEN LowerCase[CHOOSE i \in 1..Len(UpperCase) : UpperCase[i] = c]
    ELSE c

LowerText(text) == [i \in 1..Len(text) |-> Lower(text[i])]

\* text[:count]
Prefix(text, count) == SubSeq(text, 1, IF Len(text) < count THEN Len(text) ELSE count)

\* term in text
Contains(text, term) ==
    \E i \in 1..(Len(text) - Len(term) + 1) :
        \A j \in 1..Len(term) : text[i + j - 1] = term[j]

RECURSIVE ContentSample(_, _)
ContentSample(messages, i) ==
    IF i > Len(messages) \/ i > ContextMessages THEN <<>>
    ELSE Prefix(StrOf(messages[i].content), ContextChars) \o ContentSample(messages, i + 1)

RECURSIVE FirstRule(_, _)
FirstRule(content_lower, r) ==
    IF r > Len(ContextRules) THEN "general"
    ELSE IF \E t \in 1..Len(ContextRules[r].terms) :
                Contains(content_lower, ContextRules[r].terms[t])
         THEN ContextRules[r].label
         ELSE FirstRule(content_lower, r + 1)

\* a context found without lowering the sample
extract_project_context_case_sensitive(messages) ==
    FirstRule(ContentSample(messages, 1), 1)

extract_project_context(messages) ==
    FirstRule(LowerText(ContentSample(messages, 1)), 1)

----------------------------------------------------------------------------
(* Log entries.  An entry is a JSON object; the record names every key the *)
(* analyzers read.  line is the entry's position in its file, kept through  *)
(* reconstruction as a history field so that a message can be traced back  *)
(* to the entry it was built from.                                         *)

\* message.usage: k is "absent", "null", "num" (a non-object) or "dict"
UAbsent ==
    [k |-> "absent", input_tokens |-> JAbsent, output_tokens |-> JAbsent,
     cache_creation_input_tokens |-> JAbsent, cache_read_input_tokens |-> JAbsent]
UNull == [UAbsent EXCEPT !.k = "null"]
UNum == [UAbsent EXCEPT !.k = "num"]
UDict(i, o) == [UAbsent EXCEPT !.k = "dict", !.input_tokens = i, !.output_tokens = o]
UDictCache(i, o, creation, read) ==
    [UDict(i, o) EXCEPT !.cache_creation_input_tokens = creation,
                        !.cache_read_input_tokens = read]

\* entry.message: k is "absent", "null", "str" (a non-object) or "dict"
MAbsent == [k |-> "absent", content |-> CAbsent, model |-> JAbsent, usage |-> UAbsent]
MNull == [k |-> "null", content |-> CAbsent, model |-> JAbsent, usage |-> UAbsent]
MStr == [k |-> "str", content |-> CAbsent, model |-> JAbsent, usage |-> UAbsent]
MDict(c, m, u) == [k |-> "dict", content |-> c, model |-> m, usage |-> u]

\* one part of a list-valued message.content
TextPart(text) == [k |-> "dict", type |-> "text", text |-> CStr(text), name |-> CAbsent]
ToolPart(name) == [k |-> "dict", type |-> "tool_use", text |-> CAbsent, name |-> name]
\* a text part with any text value, a dict part of another type, a part that is not a dict
TextPartOf(text) == [k |-> "dict", type |-> "text", text |-> text, name |-> CAbsent]
OtherPart == [k |-> "dict", type |-> "image", text |-> CAbsent, name |-> CAbsent]
StrPart == [k |-> "str", type |-> "", text |-> CAbsent, name |-> CAbsent]

EmptyEntry ==
    [line |-> 0, sessionId |-> JAbsent, type |-> JAbsent, timestamp |-> JAbsent,
     message |-> MAbsent, role |-> JAbsent, content |-> CAbsent, model |-> JAbsent,
     userType |-> JAbsent]

\* bool(usage): a non-empty dict or a non-zero number
UsageTruthy(u) ==
    \/ u.k = "num"
    \/ /\ u.k = "dict"
       /\ \/ u.input_tokens.k # "absent" \/ u.output_tokens.k # "absent"
          \/ u.cache_creation_input_tokens.k # "absent"
          \/ u.cache_read_input_tokens.k # "absent"

\* '\n'.join(parts)
RECURSIVE JoinLines(_)
JoinLines(texts) ==
    IF texts = <<>> THEN <<>>
    ELSE IF Len(texts) = 1 THEN texts[1]
    ELSE texts[1] \o <<"\n">> \o JoinLines(Tail(texts))

\* the text_content list built from message.content parts (lines 173-181)
RECURSIVE TextContent(_)
TextContent(parts) ==
    IF parts = <<>> THEN <<>>
    ELSE LET part == parts[1]
             rest == TextContent(Tail(parts))
         IN  IF part.k # "dict" THEN rest
             ELSE IF part.type = "text"
                  THEN <<StrOf(Get(part.text, CStr(<<>>)))>> \o rest
             ELSE IF part.type = "tool_use"
                  THEN <<(<<"[", "T", "o", "o", "l", ":", " ">>
                          \o StrOf(Get(part.name,
                                CStr(<<"u", "n", "k", "n", "o", "w", "n", "_", "t", "o", "o", "l">>)))
                          \o <<"]">>)>> \o rest
             ELSE rest

\* '\n'.join(text_content) raises TypeError when a text part carries a text that
\* is not a string (part.get('text', '') defaults only when the key is absent)
JoinRaises(message_data) ==
    /\ message_data.content.k = "list"
    /\ \E i \in 1..Len(message_data.content.parts) :
          LET part == message_data.content.parts[i]
          IN  part.k = "dict" /\ part.type = "text" /\ part.text.k \notin {"absent", "str"}

\* an assistant content that leaves the tool_use parts out
AssistantContentTextOnly(message_data) ==
    LET content_parts == Get(message_data.content, CList(<<>>))
    IN  CASE content_parts.k = "list" ->
                CStr(JoinLines(TextContent(SelectSeq(content_parts.parts,
                                                     LAMBDA part : part.type # "tool_use"))))
          [] content_parts.k = "str" -> content_parts
          [] OTHER -> CStr(<<>>)

\* lines 170-184: the content of an assistant message
AssistantContent(message_data) ==
    LET content_parts == Get(message_data.content, CList(<<>>))
    IN  CASE content_parts.k = "list" -> CStr(JoinLines(TextContent(content_parts.parts)))
          [] content_parts.k = "str" -> content_parts
          [] OTHER -> CStr(<<>>)

\* lines 186-191: tokens from message.usage, 0 when usage is falsy
UsageTokens(message_data) ==
    LET usage == message_data.usage
    IN  IF ~UsageTruthy(usage) THEN 0
        ELSE Get(usage.input_tokens, JNum(0)).n + Get(usage.output_tokens, JNum(0)).n

\* lines 149-195: the message built from one entry; raised when .get is called on
\* a message or a usage that is not an object
MessageInfo(entry) ==
    LET type == entry.type
        is_user == type = JStr("user")
        is_assistant == type = JStr("assistant")
        message_data == Get(entry.message, MDict(CAbsent, JAbsent, UAbsent))
        bad == \/ (is_user \/ is_assistant) /\ message_data.k # "dict"
               \/ is_assistant /\ message_data.k = "dict" /\ message_data.usage.k = "num"
               \/ is_assistant /\ message_data.k = "dict" /\ JoinRaises(message_data)
               \* input_tokens + output_tokens and total_tokens += on a non-number
               \/ /\ is_assistant /\ message_data.k = "dict"
                  /\ UsageTruthy(message_data.usage)
                  /\ \/ message_data.usage.input_tokens.k \notin {"absent", "num"}
                     \/ message_data.usage.output_tokens.k \notin {"absent", "num"}
        content == IF is_user THEN Get(message_data.content, CStr(<<>>))
                   ELSE IF is_assistant THEN AssistantContent(message_data)
                   ELSE CStr(<<>>)
        used == IF is_assistant THEN UsageTokens(message_data) ELSE 0
    IN  IF bad
        THEN [raised |-> TRUE, model |-> JAbsent,
              info |-> [role |-> JNull, content |-> CNull, timestamp |-> JNull,
                        tokens |-> 0, line |-> entry.line]]
        ELSE [raised |-> FALSE,
              model |-> IF is_assistant THEN message_data.model ELSE JAbsent,
              info |-> [role |-> Get(type, JStr("unknown")),
                        content |-> content,
                        timestamp |-> Get(entry.timestamp, JNull),
                        tokens |-> IF used = 0 THEN estimate_tokens(content) ELSE used,
                        line |-> entry.line]]

----------------------------------------------------------------------------
(* list.sort(key=...) and sorted(key=..., reverse=...): a stable sort that *)
(* raises TypeError when two keys cannot be compared (str with int, None   *)
(* with anything).  With two or more elements every element is compared.   *)

SortRaises(keys) ==
    /\ Len(keys) >= 2
    /\ ~ \/ \A i \in 1..Len(keys) : keys[i].k = "str"
         \/ \A i \in 1..Len(keys) : keys[i].k = "num"

KeyRank(key) == IF key.k = "str" THEN LexRank(key.s) ELSE key.n

\* items sorted by ranks[i] ascending, equal ranks keeping their order: item i
\* goes after the items of a smaller rank and the earlier items of the same rank
StableSort(items, ranks) ==
    LET place(i) == 1 + Cardinality({j \in 1..Len(items) :
                                        \/ ranks[j] < ranks[i]
                                        \/ ranks[j] = ranks[i] /\ j < i})
    IN  [k \in 1..Len(items) |-> items[CHOOSE i \in 1..Len(items) : place(i) = k]]

----------------------------------------------------------------------------
(* ClaudeAnalyzer.process_session_entries *)

NewConversation(id, file_path) ==
    [id |-> id, file_path |-> file_path, messages |-> <<>>, total_tokens |-> 0,
     model |-> JStr("unknown"), created_at |-> JNull, last_activity |-> JNull,
     status |-> "completed", project_context |-> "unknown"]

\* lines 197-204 and 247-258: append the message, add its tokens, update the timestamps
AppendMessageForgetsTokens(conversation, info) ==
    [conversation EXCEPT
        !.messages = Append(@, info),
        !.created_at = IF Truthy(info.timestamp) /\ ~Truthy(@) THEN info.timestamp ELSE @,
        !.last_activity = IF Truthy(info.timestamp) THEN info.timestamp ELSE @]

AppendMessage(conversation, info) ==
    [conversation EXCEPT
        !.messages = Append(@, info),
        !.total_tokens = @ + info.tokens,
        !.created_at = IF Truthy(info.timestamp) /\ ~Truthy(@) THEN info.timestamp ELSE @,
        !.last_activity = IF Truthy(info.timestamp) THEN info.timestamp ELSE @]

\* lines 148-204: the loop over the sorted entries
RECURSIVE SessionLoop(_, _, _)

\* a pass of the loop that appends nothing for an entry without a type
SessionStepSkipsUntyped(conversation, m, entries, i) ==
    IF m.raised THEN [raised |-> TRUE, conv |-> conversation]
    ELSE IF m.info.role = JStr("unknown") THEN SessionLoop(conversation, entries, i + 1)
    ELSE SessionLoop(AppendMessage(IF Truthy(m.model)
                                   THEN [conversation EXCEPT !.model = m.model]
                                   ELSE conversation,
                                   m.info),
                     entries, i + 1)

\* lines 167-168 and 197-198: one pass of the loop, m the message built from entry i
SessionStep(conversation, m, entries, i) ==
    IF m.raised THEN [raised |-> TRUE, conv |-> conversation]
    ELSE SessionLoop(AppendMessage(IF Truthy(m.model)
                                   THEN [conversation EXCEPT !.model = m.model]
                                   ELSE conversation,
                                   m.info),
                     entries, i + 1)

SessionLoop(conversation, entries, i) ==
    IF i > Len(entries) THEN [raised |-> FALSE, conv |-> conversation]
    ELSE SessionStep(conversation, MessageInfo(entries[i]), entries, i)

\* lines 206-208: status and project context
Classified(conversation, status) ==
    IF status = "RAISED" THEN [raised |-> TRUE, conv |-> conversation]
    ELSE [raised |-> FALSE,
          conv |-> [conversation EXCEPT
                        !.status = status,
                        !.project_context = extract_project_context(conversation.messages)]]

Classify(conversation, clock) ==
    Classified(conversation, determine_conversation_status(conversation.last_activity, clock))

\* lines 206-210: the conversation the loop has built is classified and returned
SessionResult(looped, clock) ==
    IF looped.raised THEN looped ELSE Classify(looped.conv, clock)

process_session_entries(entries, session_id, file_path, clock) ==
    LET keys == [i \in 1..Len(entries) |-> Get(entries[i].timestamp, JStr(""))]
        sorted == StableSort(entries, [i \in 1..Len(entries) |-> KeyRank(keys[i])])
    IN  IF SortRaises(keys)
        THEN [raised |-> TRUE, conv |-> NewConversation(session_id, file_path)]
        ELSE SessionResult(SessionLoop(NewConversation(session_id, file_path), sorted, 1),
                           clock)

----------------------------------------------------------------------------
(* ClaudeAnalyzer.process_jsonl_file.  A file is [name, stem, readable,    *)
(* lines, data]; a line is [kind, entry] with kind "blank", "invalid" (not *)
(* JSON), "scalar" (JSON that is no object) or "object".                   *)

\* f'session_{line_num}'
SyntheticKey(line_num) == JStr("session_" \o ToString(line_num))

\* conversations_by_session[session_id].append(entry), keys in insertion order
AddToSessionAlwaysNew(groups, key, entry) ==
    Append(groups, [key |-> key, entries |-> <<entry>>])

AddToSession(groups, key, entry) ==
    IF \E g \in 1..Len(groups) : groups[g].key = key
    THEN [g \in 1..Len(groups) |->
            IF groups[g].key = key
            THEN [groups[g] EXCEPT !.entries = Append(@, entry)]
            ELSE groups[g]]
    ELSE Append(groups, [key |-> key, entries |-> <<entry>>])

\* lines 117-125: raised when a line parses to something without .get
RECURSIVE ReadLines(_, _, _)
ReadLines(lines, line_num, groups) ==
    IF line_num > Len(lines) THEN [raised |-> FALSE, groups |-> groups]
    ELSE LET line == lines[line_num]
         IN  CASE line.kind \in {"blank", "invalid"} ->
                    ReadLines(lines, line_num + 1, groups)
               [] line.kind = "scalar" -> [raised |-> TRUE, groups |-> groups]
               [] OTHER ->
                    ReadLines(lines, line_num + 1,
                              AddToSession(groups,
                                           Get(line.entry.sessionId, SyntheticKey(line_num)),
                                           [line.entry EXCEPT !.line = line_num]))

\* lines 128-129: one conversation per session, appended as each is finished
RECURSIVE ProcessSessions(_, _, _, _, _)

\* line 129 with the result r of process_session_entries for session g
SessionProcessed(convs, r, groups, g, file_path, clock) ==
    IF r.raised THEN [raised |-> TRUE, conversations |-> convs]
    ELSE ProcessSessions(Append(convs, r.conv), groups, g + 1, file_path, clock)

ProcessSessions(convs, groups, g, file_path, clock) ==
    IF g > Len(groups) THEN [raised |-> FALSE, conversations |-> convs]
    ELSE SessionProcessed(convs,
                          process_session_entries(groups[g].entries, groups[g].key,
                                                  file_path, clock),
                          groups, g, file_path, clock)

process_jsonl_file(convs, file, clock) ==
    LET read == ReadLines(file.lines, 1, <<>>)
    IN  IF ~file.readable \/ read.raised
        THEN [raised |-> TRUE, conversations |-> convs]
        ELSE ProcessSessions(convs, read.groups, 1, file.name, clock)

----------------------------------------------------------------------------
(* ClaudeAnalyzer.process_conversation_file.  data.k is "malformed" (not   *)
(* JSON), "list", "dict_messages" (an object with a messages list),        *)
(* "dict_messages_null" (messages is null), "dict_messages_str" (messages  *)
(* is a string, iterated character by character), "dict" or "scalar";      *)
(* items are the elements the loop visits, each [kind, entry] like a line. *)

\* lines 240-245
FileMessageInfo(msg, position) ==
    [role |-> Get(msg.role, JStr("unknown")),
     content |-> Get(msg.content, CStr(<<>>)),
     timestamp |-> Get(msg.timestamp, JNull),
     tokens |-> estimate_tokens(Get(msg.content, CStr(<<>>))),
     line |-> position]

\* lines 237-258
RECURSIVE FileLoop(_, _, _)
FileLoop(conversation, items, i) ==
    IF i > Len(items) THEN conversation
    ELSE IF items[i].kind # "object" THEN FileLoop(conversation, items, i + 1)
    ELSE LET msg == items[i].entry
             appended == AppendMessage(conversation, FileMessageInfo(msg, i))
             with_model == IF msg.model.k # "absent"
                           THEN [appended EXCEPT !.model = msg.model]
                           ELSE appended
         IN  FileLoop(with_model, items, i + 1)

\* line 264: the classified conversation is appended
FileResult(convs, file, classified) ==
    IF file.data.k = "dict_messages_null" \/ classified.raised
    THEN [raised |-> TRUE, conversations |-> convs]
    ELSE [raised |-> FALSE, conversations |-> Append(convs, classified.conv)]

process_conversation_file(convs, file, clock) ==
    FileResult(convs, file,
               Classify(FileLoop(NewConversation(JStr(file.stem), file.name),
                                 file.data.items, 1), clock))

----------------------------------------------------------------------------
(* ClaudeAnalyzer.analyze_usage_patterns *)

\* sum(numbers)
RECURSIVE Sum(_)
Sum(numbers) == IF numbers = <<>> THEN 0 ELSE numbers[1] + Sum(Tail(numbers))

\* a counter that notes each key once, however often it occurs
CounterOfDistinct(keys) ==
    [v \in {keys[i] : i \in 1..Len(keys)} |-> 1]

\* Counter(keys), as a function on the keys seen
CounterOf(keys) ==
    [v \in {keys[i] : i \in 1..Len(keys)} |->
        Cardinality({i \in 1..Len(keys) : keys[i] = v})]

\* the date of created_at moved to UTC first
UsageDateUtc(conv) ==
    IF Truthy(conv.created_at) /\ conv.created_at.k = "str" /\ Parses(conv.created_at.s)
    THEN IF conv.created_at.s = "2024-01-01T23:00:00-02:00" THEN "2024-01-02"
         ELSE IsoTable[conv.created_at.s].date
    ELSE ""

\* lines 336-343: the date a conversation is counted under, "" when it is skipped
UsageDate(conv) ==
    IF Truthy(conv.created_at) /\ conv.created_at.k = "str" /\ Parses(conv.created_at.s)
    THEN IsoTable[conv.created_at.s].date
    ELSE ""

DailyUsage(convs) ==
    [d \in {UsageDate(convs[i]) : i \in 1..Len(convs)} \ {""} |->
        LET on == {i \in 1..Len(convs) : UsageDate(convs[i]) = d}
        IN  [conversations |-> Cardinality(on),
             tokens |-> Sum([i \in 1..Len(convs) |->
                                IF i \in on THEN convs[i].total_tokens ELSE 0])]]

\* self.usage_stats = {} of __init__; a quotient is kept as <<dividend, divisor>>
EmptyStats ==
    [empty |-> TRUE, total_conversations |-> 0, total_messages |-> 0, total_tokens |-> 0,
     models |-> <<>>, projects |-> <<>>, daily_usage |-> <<>>, statuses |-> <<>>,
     avg_tokens_per_conversation |-> <<0, 1>>, avg_messages_per_conversation |-> <<0, 1>>]

Max(a, b) == IF a > b THEN a ELSE b

\* lines 318-358
UsageStatsOf(convs, old_stats) ==
    IF convs = <<>> THEN old_stats
    ELSE LET total_conversations == Len(convs)
             total_messages == Sum([i \in 1..Len(convs) |-> Len(convs[i].messages)])
             total_tokens == Sum([i \in 1..Len(convs) |-> convs[i].total_tokens])
         IN  [empty |-> FALSE,
              total_conversations |-> total_conversations,
              total_messages |-> total_messages,
              total_tokens |-> total_tokens,
              models |-> CounterOf([i \in 1..Len(convs) |-> convs[i].model]),
              projects |-> CounterOf([i \in 1..Len(convs) |-> convs[i].project_context]),
              daily_usage |-> DailyUsage(convs),
              statuses |-> CounterOf([i \in 1..Len(convs) |-> convs[i].status]),
              avg_tokens_per_conversation |-> <<total_tokens, Max(total_conversations, 1)>>,
              avg_messages_per_conversation |-> <<total_messages, Max(total_conversations, 1)>>]

\* the statistics of the conversations that are not yet inactive
analyze_usage_patterns_live_only(convs, old_stats) ==
    LET live(c) == c.status # "inactive"
    IN  UsageStatsOf(SelectSeq(convs, live), old_stats)

analyze_usage_patterns(convs, old_stats) == UsageStatsOf(convs, old_stats)

----------------------------------------------------------------------------
(* ClaudeAnalyzer.generate_enhanced_html, lines 363-379: the conversations *)
(* to display, and the clean-up of their messages, which writes to the     *)
(* message objects that self.conversations holds.                          *)

\* str.replace of the three control characters by their two-character escapes
EscapeChar(c) ==
    CASE c = "\n" -> <<"\\", "n">>
      [] c = "\r" -> <<"\\", "r">>
      [] c = "\t" -> <<"\\", "t">>
      [] OTHER -> <<c>>

RECURSIVE Escape(_)
Escape(text) ==
    IF text = <<>> THEN <<>>
    ELSE IF Len(text) = 1 THEN EscapeChar(text[1])
    ELSE LET half == Len(text) \div 2
         IN  Escape(SubSeq(text, 1, half)) \o Escape(SubSeq(text, half + 1, Len(text)))

\* lines 374-379
CleanContent(content) ==
    LET text == StrOf(content)
        cut == IF Len(text) > DisplayChars
               THEN SubSeq(text, 1, DisplayChars - 3) \o <<".", ".", ".">>
               ELSE text
    IN  CStr(Escape(cut))

CleanConversation(conv) ==
    [conv EXCEPT !.messages =
        [j \in 1..Len(conv.messages) |->
            [conv.messages[j] EXCEPT !.content = CleanContent(@)]]]

\* x.get('last_activity') or '1900-01-01T00:00:00Z'
DisplayKey(conv) ==
    IF Truthy(conv.last_activity) THEN conv.last_activity ELSE JStr("1900-01-01T00:00:00Z")

generate_enhanced_html(convs) ==
    LET keys == [i \in 1..Len(convs) |-> DisplayKey(convs[i])]
        order == StableSort([i \in 1..Len(convs) |-> i],
                            [i \in 1..Len(convs) |-> 0 - KeyRank(keys[i])])
        shown == SubSeq(order, 1, IF Len(order) < DisplayLimit THEN Len(order) ELSE DisplayLimit)
        cleaned == [i \in 1..Len(convs) |->
                        IF \E k \in 1..Len(shown) : shown[k] = i
                        THEN CleanConversation(convs[i])
                        ELSE convs[i]]
    IN  IF SortRaises(keys)
        THEN [raised |-> TRUE, conversations |-> convs, display |-> <<>>]
        ELSE [raised |-> FALSE, conversations |-> cleaned,
              display |-> [k \in 1..Len(shown) |-> cleaned[shown[k]]]]

----------------------------------------------------------------------------
(* The run: main() of claude-analyzer-v2.py constructs a ClaudeAnalyzer,   *)
(* loads every file, then analyzes and renders.                            *)

\* where load_conversation_data stands once file i of the list at position p is done
AfterFile(p, i) ==
    IF p = "load_json" /\ i < Len(json_files) THEN <<"load_json", i + 1>>
    ELSE IF p = "load_json" /\ jsonl_files # <<>> THEN <<"load_jsonl", 1>>
    ELSE IF p = "load_jsonl" /\ i < Len(jsonl_files) THEN <<"load_jsonl", i + 1>>
    ELSE <<"loaded", 0>>

\* analyze_claude_usage.py is not run
SimpleIdle ==
    /\ args_file = [name |-> "", stem |-> "", readable |-> FALSE, lines |-> <<>>,
                    data |-> [k |-> "none", items |-> <<>>]]
    /\ spc = "idle"
    /\ data = [none |-> TRUE, items |-> <<>>]
    /\ analysis = [done |-> FALSE, raised |-> FALSE]

\* ClaudeAnalyzer.__init__ and the entry of load_conversation_data (lines 89-91)
Start ==
    /\ conversations = <<>>
    /\ usage_stats = EmptyStats
    /\ display = <<>>
    /\ failed = {}
    /\ before = <<>>
    /\ analyzed = FALSE
    /\ rendered = FALSE
    /\ pc = IF json_files # <<>> THEN "load_json"
            ELSE IF jsonl_files # <<>> THEN "load_jsonl" ELSE "loaded"
    /\ fi = IF json_files = <<>> /\ jsonl_files = <<>> THEN 0 ELSE 1
    /\ exit_code = -1
    \* line 90: "No JSON/JSONL files found in data directory"
    /\ printed = IF json_files = <<>> /\ jsonl_files = <<>> THEN {"no_files"} ELSE {}
    /\ SimpleIdle

\* lines 96-103: one iteration of the loop over json_files; except Exception
\* catches whatever open, json.load and process_conversation_file raise
\* except Exception (lines 102-103 and 110-111): r is what the try block did
Caught(r) == [raised |-> r.raised, conversations |-> r.conversations, propagated |-> FALSE]

\* a loop whose exception leaves load_conversation_data
Uncaught(r) == [raised |-> r.raised, conversations |-> r.conversations, propagated |-> r.raised]

load_json_file(convs, file, clock) ==
    Caught(IF ~file.readable \/ file.data.k = "malformed"
           THEN [raised |-> TRUE, conversations |-> convs]
           ELSE process_conversation_file(convs, file, clock))

\* lines 96-111: what one iteration leaves behind, r the result for the file
FileLoaded(r, file_path) ==
    /\ conversations' = r.conversations
    /\ failed' = IF r.raised THEN failed \cup {file_path.name} ELSE failed
    /\ before' = conversations
    /\ pc' = IF r.propagated THEN "crashed" ELSE AfterFile(pc, fi)[1]
    /\ fi' = IF r.propagated THEN fi ELSE AfterFile(pc, fi)[2]
    \* an exception that leaves load_conversation_data leaves main()
    /\ exit_code' = IF r.propagated THEN 1 ELSE exit_code

LoadJsonFile ==
    /\ pc = "load_json"
    /\ FileLoaded(load_json_file(conversations, json_files[fi], now), json_files[fi])
    /\ UNCHANGED <<json_files, jsonl_files, now, usage_stats, display, analyzed, rendered, prev>>
    /\ UNCHANGED <<simple_vars, printed>>

\* lines 106-111: one iteration of the loop over jsonl_files
load_jsonl_file_uncaught(convs, file, clock) ==
    Uncaught(process_jsonl_file(convs, file, clock))

load_jsonl_file(convs, file, clock) ==
    Caught(process_jsonl_file(convs, file, clock))

LoadJsonlFile ==
    /\ pc = "load_jsonl"
    /\ FileLoaded(load_jsonl_file(conversations, jsonl_files[fi], now), jsonl_files[fi])
    /\ UNCHANGED <<json_files, jsonl_files, now, usage_stats, display, analyzed, rendered, prev>>
    /\ UNCHANGED <<simple_vars, printed>>

AnalyzeUsagePatterns ==
    /\ pc = "loaded"
    /\ usage_stats' = analyze_usage_patterns(conversations, usage_stats)
    /\ analyzed' = TRUE
    /\ pc' = "analyzed"
    /\ UNCHANGED <<json_files, jsonl_files, now, fi, conversations, display, failed,
                   before, rendered, prev>>
    /\ UNCHANGED <<simple_vars, exit_code, printed>>

\* lines 811-815: the dashboard is written; an exception leaves main()
Generated(r) ==
    /\ conversations' = r.conversations
    /\ display' = r.display
    /\ pc' = IF r.raised THEN "render_failed" ELSE "rendered"
    /\ rendered' = ~r.raised
    /\ exit_code' = IF r.raised THEN 1 ELSE exit_code
    /\ printed' = IF r.raised THEN printed ELSE printed \cup {"dashboard"}

GenerateEnhancedHtml ==
    /\ pc = "analyzed"
    /\ Generated(generate_enhanced_html(conversations))
    /\ UNCHANGED <<json_files, jsonl_files, now, fi, usage_stats, failed, before, analyzed,
                   prev>>
    /\ UNCHANGED simple_vars

\* lines 868-875: main() returns 0
Return ==
    /\ pc = "rendered"
    /\ pc' = "done"
    /\ exit_code' = 0
    /\ UNCHANGED <<json_files, jsonl_files, now, fi, conversations, usage_stats, display,
                   failed, before, analyzed, rendered, prev>>
    /\ UNCHANGED <<simple_vars, printed>>

\* the next invocation of main() on the same files, at some later or earlier clock
NowChoices == {299, 300, 3599, 3600, 86390, 86500, 90100}

NewRun ==
    /\ pc \in {"done", "render_failed"}
    /\ prev' = [analyzed |-> analyzed, stats |-> usage_stats]
    /\ now' \in NowChoices
    /\ conversations' = <<>>
    /\ usage_stats' = EmptyStats
    /\ display' = <<>>
    /\ failed' = {}
    /\ before' = <<>>
    /\ analyzed' = FALSE
    /\ rendered' = FALSE
    /\ pc' = IF json_files # <<>> THEN "load_json"
             ELSE IF jsonl_files # <<>> THEN "load_jsonl" ELSE "loaded"
    /\ fi' = IF json_files = <<>> /\ jsonl_files = <<>> THEN 0 ELSE 1
    /\ exit_code' = -1
    /\ printed' = IF json_files = <<>> /\ jsonl_files = <<>> THEN {"no_files"} ELSE {}
    /\ UNCHANGED <<json_files, jsonl_files, simple_vars>>

Next == LoadJsonFile \/ LoadJsonlFile \/ AnalyzeUsagePatterns \/ GenerateEnhancedHtml \/ Return

NextRuns == Next \/ NewRun

----------------------------------------------------------------------------
(* The simple analyzer, analyze_claude_usage.py.  data is the list that    *)
(* load_jsonl returns, [none, items]: none for Python's None, items the    *)
(* parsed values, each [kind, entry] like a line, with the line number     *)
(* kept in entry.line.  A result with raised = TRUE is an exception that   *)
(* left the function.                                                      *)

SecondsPerMinute == 60

None == [none |-> TRUE, items |-> <<>>]

\* lines 18-25: blank lines are skipped silently, invalid ones with a warning
RECURSIVE ParsedLines(_, _)
ParsedLines(lines, line_num) ==
    IF line_num > Len(lines) THEN <<>>
    ELSE LET line == lines[line_num]
             rest == ParsedLines(lines, line_num + 1)
         IN  IF line.kind \in {"blank", "invalid"} THEN rest
             ELSE <<[kind |-> line.kind,
                     entry |-> [line.entry EXCEPT !.line = line_num]]>> \o rest

load_jsonl(file_path) ==
    IF ~file_path.readable THEN None
    ELSE [none |-> FALSE, items |-> ParsedLines(file_path.lines, 1)]

\* entry.get(...) on every element: a value that is no object has no .get
analyze_basic_stats(items) ==
    LET entries == [i \in 1..Len(items) |-> items[i].entry]
    IN  [raised |-> \E i \in 1..Len(items) : items[i].kind # "object",
         total_messages |-> Len(items),
         unique_sessions |->
            Cardinality({Get(entries[i].sessionId, JStr("unknown")) : i \in 1..Len(entries)}),
         user_types |->
            CounterOf([i \in 1..Len(entries) |-> Get(entries[i].userType, JStr("unknown"))]),
         message_types |->
            CounterOf([i \in 1..Len(entries) |-> Get(entries[i].type, JStr("unknown"))])]

\* 'key' in entry['message']: a key test on an object, a substring test on a
\* string (the strings of the inputs hold no key name), TypeError on the rest
MessageHas(message, present) == message.k = "dict" /\ present

MessageRaises(message) == message.k = "null"

\* usage.get(name, 0) as a term of a sum: anything but a number raises
NotANumber(v) == v.k \notin {"absent", "num"}

EmptyTokenStats ==
    [raised |-> FALSE, total_input_tokens |-> 0, total_output_tokens |-> 0,
     total_cache_tokens |-> 0, messages_with_usage |-> 0, token_distribution |-> <<>>]

\* lines 59-72: the body of the loop, with every message that has usage recorded
TokenStepKeepsZero(token_stats, entry) ==
    LET usage == entry.message.usage
        input_tokens == Get(usage.input_tokens, JNum(0)).n
        output_tokens == Get(usage.output_tokens, JNum(0)).n
        cache_tokens == Get(usage.cache_creation_input_tokens, JNum(0)).n
                        + Get(usage.cache_read_input_tokens, JNum(0)).n
    IN  IF token_stats.raised \/ MessageRaises(entry.message)
        THEN [token_stats EXCEPT !.raised = TRUE]
        ELSE IF ~MessageHas(entry.message, usage.k # "absent") THEN token_stats
        ELSE IF \/ usage.k # "dict"
                \/ NotANumber(usage.input_tokens) \/ NotANumber(usage.output_tokens)
                \/ NotANumber(usage.cache_creation_input_tokens)
                \/ NotANumber(usage.cache_read_input_tokens)
             THEN [token_stats EXCEPT !.raised = TRUE]
        ELSE [token_stats EXCEPT
                !.total_input_tokens = @ + input_tokens,
                !.total_output_tokens = @ + output_tokens,
                !.total_cache_tokens = @ + cache_tokens,
                !.messages_with_usage = @ + 1,
                !.token_distribution = Append(@, input_tokens + output_tokens)]

\* lines 59-72: the body of the loop
TokenStep(token_stats, entry) ==
    LET usage == entry.message.usage
        input_tokens == Get(usage.input_tokens, JNum(0)).n
        output_tokens == Get(usage.output_tokens, JNum(0)).n
        cache_tokens == Get(usage.cache_creation_input_tokens, JNum(0)).n
                        + Get(usage.cache_read_input_tokens, JNum(0)).n
        total_msg_tokens == input_tokens + output_tokens
    IN  IF token_stats.raised \/ MessageRaises(entry.message)
        THEN [token_stats EXCEPT !.raised = TRUE]
        ELSE IF ~MessageHas(entry.message, usage.k # "absent") THEN token_stats
        ELSE IF \/ usage.k # "dict"
                \/ NotANumber(usage.input_tokens) \/ NotANumber(usage.output_tokens)
                \/ NotANumber(usage.cache_creation_input_tokens)
                \/ NotANumber(usage.cache_read_input_tokens)
             THEN [token_stats EXCEPT !.raised = TRUE]
        ELSE [token_stats EXCEPT
                !.total_input_tokens = @ + input_tokens,
                !.total_output_tokens = @ + output_tokens,
                !.total_cache_tokens = @ + cache_tokens,
                !.messages_with_usage = @ + 1,
                !.token_distribution =
                    IF total_msg_tokens > 0 THEN Append(@, total_msg_tokens) ELSE @]

RECURSIVE TokenLoop(_, _, _)
TokenLoop(token_stats, items, i) ==
    IF i > Len(items) THEN token_stats
    ELSE TokenLoop(TokenStep(token_stats, items[i].entry), items, i + 1)

\* max(tokens) and min(tokens) of a non-empty list
MaxOf(numbers) == CHOOSE x \in {numbers[i] : i \in 1..Len(numbers)} :
                    \A i \in 1..Len(numbers) : numbers[i] <= x

MinOf(numbers) == CHOOSE x \in {numbers[i] : i \in 1..Len(numbers)} :
                    \A i \in 1..Len(numbers) : x <= numbers[i]

\* lines 74-78 add the three keys only when the distribution is not empty:
\* has_distribution_stats tells whether they are there; a quotient is kept as
\* <<dividend, divisor>>
analyze_tokens(items) ==
    LET token_stats == TokenLoop(EmptyTokenStats, items, 1)
        tokens == token_stats.token_distribution
    IN  [raised |-> token_stats.raised,
         total_input_tokens |-> token_stats.total_input_tokens,
         total_output_tokens |-> token_stats.total_output_tokens,
         total_cache_tokens |-> token_stats.total_cache_tokens,
         messages_with_usage |-> token_stats.messages_with_usage,
         token_distribution |-> tokens,
         has_distribution_stats |-> tokens # <<>>,
         avg_tokens_per_message |-> IF tokens # <<>> THEN <<Sum(tokens), Len(tokens)>>
                                    ELSE <<0, 1>>,
         max_tokens_per_message |-> IF tokens # <<>> THEN MaxOf(tokens) ELSE 0,
         min_tokens_per_message |-> IF tokens # <<>> THEN MinOf(tokens) ELSE 0]

\* lines 88-98: the timestamp of an entry when it is truthy and parses
ParsedTimestamp(entry) ==
    LET timestamp_str == Get(entry.timestamp, JNull)
    IN  IF Truthy(timestamp_str) /\ timestamp_str.k = "str" /\ Parses(timestamp_str.s)
        THEN <<IsoTable[timestamp_str.s]>>
        ELSE <<>>

RECURSIVE ParsedTimestamps(_)
ParsedTimestamps(entries) ==
    IF entries = <<>> THEN <<>>
    ELSE ParsedTimestamp(entries[1]) \o ParsedTimestamps(Tail(entries))

analyze_timeline(items) ==
    LET stamps == ParsedTimestamps([i \in 1..Len(items) |-> items[i].entry])
    IN  [raised |-> FALSE,
         daily_usage |-> CounterOf([i \in 1..Len(stamps) |-> stamps[i].date]),
         hourly_distribution |-> CounterOf([i \in 1..Len(stamps) |-> stamps[i].hour])]

analyze_models(items) ==
    LET counted == SelectSeq([i \in 1..Len(items) |-> items[i].entry.message],
                             LAMBDA m : MessageHas(m, m.model.k # "absent"))
    IN  [raised |-> \E i \in 1..Len(items) : MessageRaises(items[i].entry.message),
         model_counts |-> CounterOf([i \in 1..Len(counted) |-> counted[i].model])]

\* lines 134-146: the duration sample of one session; max() and min() raise
\* TypeError when offset-naive and offset-aware datetimes meet
SessionDuration(messages) ==
    LET timestamps == ParsedTimestamps(messages)
        instants == [i \in 1..Len(timestamps) |-> timestamps[i].instant]
    IN  IF Len(timestamps) <= 1 THEN [raised |-> FALSE, sample |-> <<>>]
        ELSE IF \E i, j \in 1..Len(timestamps) : timestamps[i].aware # timestamps[j].aware
        THEN [raised |-> TRUE, sample |-> <<>>]
        ELSE [raised |-> FALSE,
              sample |-> <<(<<MaxOf(instants) - MinOf(instants), SecondsPerMinute>>)>>]

RECURSIVE SessionDurations(_, _)
SessionDurations(session_data, g) ==
    IF g > Len(session_data) THEN [raised |-> FALSE, samples |-> <<>>]
    ELSE LET first == SessionDuration(session_data[g].entries)
             rest == SessionDurations(session_data, g + 1)
         IN  IF first.raised THEN [raised |-> TRUE, samples |-> <<>>]
             ELSE [raised |-> rest.raised, samples |-> first.sample \o rest.samples]

\* lines 120-122: session_data[session_id].append(entry), keys in insertion order
RECURSIVE SessionData(_, _, _)
SessionData(items, i, groups) ==
    IF i > Len(items) THEN groups
    ELSE SessionData(items, i + 1,
                     AddToSession(groups, Get(items[i].entry.sessionId, JStr("unknown")),
                                  items[i].entry))

analyze_sessions(items) ==
    LET session_data == SessionData(items, 1, <<>>)
        msgs == [g \in 1..Len(session_data) |-> Len(session_data[g].entries)]
        durations == SessionDurations(session_data, 1)
    IN  [raised |-> durations.raised,
         total_sessions |-> Len(session_data),
         messages_per_session |-> msgs,
         session_durations |-> durations.samples,
         avg_messages_per_session |-> IF msgs # <<>> THEN <<Sum(msgs), Len(msgs)>>
                                      ELSE <<0, 1>>]

NoAnalysis == [done |-> FALSE, raised |-> FALSE]

\* lines 227-233: the five analyses in the order the dict display evaluates them;
\* the first exception leaves main()
PerformedAnalysis(items) ==
    LET basic_stats == analyze_basic_stats(items)
    IN  IF basic_stats.raised THEN [done |-> FALSE, raised |-> TRUE]
        ELSE LET token_stats == analyze_tokens(items)
                 timeline == analyze_timeline(items)
                 models == analyze_models(items)
                 session_stats == analyze_sessions(items)
             IN  IF token_stats.raised \/ models.raised \/ session_stats.raised
                 THEN [done |-> FALSE, raised |-> TRUE]
                 ELSE [done |-> TRUE, raised |-> FALSE, basic_stats |-> basic_stats,
                       token_stats |-> token_stats, timeline |-> timeline,
                       models |-> models, session_stats |-> session_stats]

\* lines 217-224
LoadData ==
    /\ spc = "load"
    /\ data' = load_jsonl(args_file)
    /\ IF data'.none
       THEN /\ printed' = printed \cup {"file_error"}
            /\ exit_code' = 1
            /\ spc' = "exited"
       ELSE IF Len(data'.items) = 0
       THEN /\ printed' = printed \cup {"no_valid_data"}
            /\ exit_code' = 1
            /\ spc' = "exited"
       ELSE /\ spc' = "analyze"
            /\ UNCHANGED <<printed, exit_code>>
    /\ UNCHANGED <<analyzer_vars, args_file, analysis>>

\* lines 226-233
PerformAnalysis ==
    /\ spc = "analyze"
    /\ analysis' = PerformedAnalysis(data.items)
    /\ spc' = IF analysis'.raised THEN "crashed" ELSE "output"
    /\ exit_code' = IF analysis'.raised THEN 1 ELSE exit_code
    /\ UNCHANGED <<analyzer_vars, args_file, data, printed>>

\* lines 235-242: the report is printed and main() returns
OutputResults ==
    /\ spc = "output"
    /\ printed' = printed \cup {"report"}
    /\ exit_code' = 0
    /\ spc' = "done"
    /\ UNCHANGED <<analyzer_vars, args_file, data, analysis>>

NextSimple == LoadData \/ PerformAnalysis \/ OutputResults

\* claude-analyzer-v2.py is not run
AnalyzerIdle ==
    /\ json_files = <<>>
    /\ jsonl_files = <<>>
    /\ now = 0
    /\ pc = "idle"
    /\ fi = 0
    /\ conversations = <<>>
    /\ usage_stats = EmptyStats
    /\ display = <<>>
    /\ failed = {}
    /\ before = <<>>
    /\ analyzed = FALSE
    /\ rendered = FALSE
    /\ prev = [analyzed |-> FALSE, stats |-> EmptyStats]

\* the entry of main() of analyze_claude_usage.py on the file named on the command line
StartSimple ==
    /\ spc = "load"
    /\ data = None
    /\ analysis = NoAnalysis
    /\ exit_code = -1
    /\ printed = {}
    /\ AnalyzerIdle

----------------------------------------------------------------------------
(* Inputs.  Every specification below runs the same program on one family  *)
(* of input files; a family varies the fields its claims are about.        *)

SeqsUpTo(S, count) == UNION {[1..k -> S] : k \in 0..count}

NoData == [k |-> "none", items |-> <<>>]

JsonlFile(name, readable, lines) ==
    [name |-> name \o ".jsonl", stem |-> name, readable |-> readable,
     lines |-> lines, data |-> NoData]

JsonFile(name, readable, value) ==
    [name |-> name \o ".json", stem |-> name, readable |-> readable,
     lines |-> <<>>, data |-> value]

BlankLine == [kind |-> "blank", entry |-> EmptyEntry]
InvalidLine == [kind |-> "invalid", entry |-> EmptyEntry]
ScalarLine == [kind |-> "scalar", entry |-> EmptyEntry]
ObjectLine(entry) == [kind |-> "object", entry |-> entry]

\* a JSONL entry {"sessionId":..., "type":..., "timestamp":..., "message":...}
Entry(sessionId, type, timestamp, message) ==
    [EmptyEntry EXCEPT !.sessionId = sessionId, !.type = type,
                       !.timestamp = timestamp, !.message = message]

\* an element {"sessionId":..., "role":..., "content":..., "timestamp":..., "model":...}
\* of a .json file
Element(sessionId, role, content, timestamp, model) ==
    [EmptyEntry EXCEPT !.sessionId = sessionId, !.role = role, !.content = content,
                       !.timestamp = timestamp, !.model = model]

ListData(entries) ==
    [k |-> "list", items |-> [i \in 1..Len(entries) |-> ObjectLine(entries[i])]]

Abcd == <<"a", "b", "c", "d">>

(* Family 1: lines of every kind and session ids, for parsing and grouping *)

GroupLines ==
    {BlankLine, InvalidLine, ScalarLine,
     ObjectLine(Entry(JStr("a"), JStr("user"), JAbsent, MDict(CStr(Abcd), JAbsent, UAbsent))),
     ObjectLine(Entry(JStr("session_2"), JAbsent, JAbsent, MAbsent)),
     ObjectLine(Entry(JAbsent, JAbsent, JAbsent, MAbsent)),
     \* "message" is a string: process_session_entries raises on it
     ObjectLine(Entry(JStr("b"), JStr("user"), JAbsent, MStr))}

\* the other files of the directory: <<json_files, further jsonl_files>>
GroupOtherFiles ==
    {<<<<>>, <<>>>>,
     <<<<JsonFile("c1", TRUE, [k |-> "malformed", items |-> <<>>])>>,
       <<JsonlFile("f2", FALSE, <<>>)>>>>,
     <<<<JsonFile("c1", TRUE,
                  ListData(<<Element(JStr("a"), JStr("user"), CStr(Abcd), JAbsent, JAbsent),
                             Element(JStr("b"), JStr("assistant"), CStr(Abcd), JAbsent, JAbsent)>>))>>,
       <<JsonlFile("f2", TRUE,
                   <<ObjectLine(Entry(JStr("a"), JStr("user"), JAbsent,
                                      MDict(CStr(Abcd), JAbsent, UAbsent)))>>)>>>>}

InitGroup ==
    /\ \E lines \in SeqsUpTo(GroupLines, MaxLines), others \in GroupOtherFiles :
            /\ json_files = others[1]
            /\ jsonl_files = <<JsonlFile("f1", TRUE, lines)>> \o others[2]
    /\ now = 300
    /\ prev = [analyzed |-> FALSE, stats |-> EmptyStats]
    /\ Start

SpecGroup == InitGroup /\ [][Next]_vars

(* Family 2: entry types, usage objects and contents, for token counts *)

Text8 == <<"a", "b", "c", "d", "e", "f", "g", "h">>
TextLines == <<"a", "b", "\n", "c", "d", "\n", "e", "f", "g", "h">>
Hello == <<"h", "e", "l", "l", "o">>
Bash == <<"B", "a", "s", "h">>
LongChars == 600

TokenLines ==
    {ObjectLine(Entry(JStr("a"), JStr("user"), JAbsent, MDict(CStr(Text8), JAbsent, UAbsent))),
     ObjectLine(Entry(JStr("a"), JStr("user"), JAbsent,
                      MDict(CStr(Text8), JAbsent, UDict(JNum(3), JNum(2))))),
     ObjectLine(Entry(JStr("a"), JStr("assistant"), JAbsent,
                      MDict(CList(<<TextPart(Hello)>>), JStr("m1"), UDict(JNum(3), JNum(2))))),
     ObjectLine(Entry(JStr("a"), JStr("assistant"), JAbsent,
                      MDict(CStr(Text8), JStr("m1"), UDict(JNum(0), JNum(0))))),
     ObjectLine(Entry(JStr("b"), JStr("assistant"), JAbsent,
                      MDict(CList(<<ToolPart(CStr(Bash))>>), JAbsent, UDict(JNum(3), JAbsent)))),
     ObjectLine(Entry(JStr("b"), JStr("assistant"), JAbsent,
                      MDict(CStr(TextLines), JAbsent, UAbsent))),
     ObjectLine(Entry(JAbsent, JStr("system"), JAbsent,
                      MDict(CStr(Text8), JAbsent, UAbsent)))}

TokenJsonFiles ==
    {<<>>,
     <<JsonFile("c1", TRUE,
                ListData(<<Element(JAbsent, JStr("user"), CStr(Text8), JAbsent, JAbsent),
                           Element(JAbsent, JStr("assistant"), CStr(TextLines), JAbsent,
                                   JStr("m1"))>>))>>}

\* a message longer than the dashboard displays
LongJsonFile ==
    JsonFile("c1", TRUE,
             ListData(<<Element(JAbsent, JStr("user"), CStr(Rep("x", LongChars)), JAbsent, JAbsent),
                        Element(JAbsent, JStr("assistant"), CStr(TextLines), JAbsent,
                                JStr("m1"))>>))

InitTokens ==
    /\ \/ /\ json_files \in TokenJsonFiles
          /\ \E lines \in SeqsUpTo(TokenLines, MaxLines) :
                jsonl_files = <<JsonlFile("f1", TRUE, lines)>>
       \/ /\ json_files = <<LongJsonFile>>
          /\ \E lines \in SeqsUpTo(TokenLines, 2) :
                jsonl_files = <<JsonlFile("f1", TRUE, lines)>>
    /\ now = 300
    /\ prev = [analyzed |-> FALSE, stats |-> EmptyStats]
    /\ Start

SpecTokens == InitTokens /\ [][Next]_vars

(* Family 3: timestamps of every shape and the clock, for status and for   *)
(* created_at / last_activity                                              *)

Timestamps ==
    {JAbsent, JNull, JStr(""), JStr("not-a-date"), JNum(5),
     JStr("2024-01-01T00:00:00"), JStr("2024-01-01T00:00:00Z"),
     JStr("2024-01-01T23:00:00-02:00"), JStr("2024-01-02T00:00:00Z")}

TimeLines == {ObjectLine(Entry(JStr("a"), JAbsent, t, MAbsent)) : t \in Timestamps}

TimeElement(t) == Element(JAbsent, JStr("user"), CStr(Abcd), t, JAbsent)

TimeJsonFiles ==
    {<<JsonFile("c1", TRUE,
                ListData(<<TimeElement(JStr("2024-01-02T00:00:00Z")),
                           TimeElement(JStr("2024-01-01T00:00:00Z"))>>))>>,
     <<JsonFile("c1", TRUE,
                ListData(<<TimeElement(JStr("2024-01-01T00:00:00Z")),
                           TimeElement(JAbsent),
                           TimeElement(JStr("2024-01-02T00:00:00Z"))>>))>>,
     <<JsonFile("c1", TRUE, ListData(<<TimeElement(JStr("not-a-date"))>>))>>,
     <<JsonFile("c1", TRUE, ListData(<<TimeElement(JNull)>>))>>}

InitTime ==
    /\ \/ /\ json_files = <<>>
          /\ \E lines \in SeqsUpTo(TimeLines, MaxLines) :
                jsonl_files = <<JsonlFile("f1", TRUE, lines)>>
       \/ /\ json_files \in TimeJsonFiles
          /\ jsonl_files = <<>>
    /\ now \in NowChoices
    /\ prev = [analyzed |-> FALSE, stats |-> EmptyStats]
    /\ Start

SpecTime == InitTime /\ [][Next]_vars

(* Family 4: the same files analyzed by several runs at different clocks   *)

RunLines ==
    {ObjectLine(Entry(JStr("a"), JStr("user"), JStr("2024-01-01T00:00:00Z"),
                      MDict(CStr(Text8), JAbsent, UAbsent))),
     ObjectLine(Entry(JStr("b"), JStr("assistant"), JStr("2024-01-02T00:00:00Z"),
                      MDict(CStr(Hello), JStr("m1"), UDict(JNum(3), JNum(2))))),
     ObjectLine(Entry(JAbsent, JStr("user"), JAbsent, MDict(CStr(Abcd), JAbsent, UAbsent)))}

RunJsonFiles ==
    {<<>>,
     <<JsonFile("c1", TRUE,
                ListData(<<Element(JAbsent, JStr("user"), CStr(Text8),
                                   JStr("2024-01-01T23:00:00-02:00"), JStr("m2"))>>))>>}

InitRuns ==
    /\ json_files \in RunJsonFiles
    /\ \E lines \in SeqsUpTo(RunLines, MaxLines) :
            jsonl_files = <<JsonlFile("f1", TRUE, lines)>>
    /\ now \in NowChoices
    /\ prev = [analyzed |-> FALSE, stats |-> EmptyStats]
    /\ Start

SpecRuns == InitRuns /\ [][NextRuns]_vars

(* Family 5: one file for the simple analyzer, with usage objects of every *)
(* shape                                                                   *)

SimpleTokenLines ==
    {BlankLine, InvalidLine, ScalarLine,
     ObjectLine(Entry(JStr("a"), JStr("user"), JAbsent, MAbsent)),
     ObjectLine(Entry(JStr("a"), JStr("user"), JAbsent, MStr)),
     ObjectLine(Entry(JStr("a"), JStr("user"), JAbsent, MNull)),
     ObjectLine(Entry(JStr("a"), JStr("user"), JAbsent, MDict(CStr(Abcd), JAbsent, UAbsent))),
     ObjectLine(Entry(JStr("a"), JStr("assistant"), JAbsent,
                      MDict(CStr(Abcd), JStr("m1"), UNull))),
     ObjectLine(Entry(JStr("a"), JStr("assistant"), JAbsent,
                      MDict(CStr(Abcd), JStr("m1"), UDict(JNum(3), JNum(2))))),
     ObjectLine(Entry(JStr("a"), JStr("assistant"), JAbsent,
                      MDict(CStr(Abcd), JStr("m1"), UDict(JNum(0), JNum(0))))),
     ObjectLine(Entry(JStr("b"), JStr("assistant"), JAbsent,
                      MDict(CStr(Abcd), JStr("m2"), UDict(JNum(7), JAbsent)))),
     ObjectLine(Entry(JStr("b"), JStr("assistant"), JAbsent,
                      MDict(CStr(Abcd), JNull,
                            UDictCache(JAbsent, JAbsent, JNum(4), JNum(1))))),
     ObjectLine(Entry(JAbsent, JStr("assistant"), JAbsent,
                      MDict(CStr(Abcd), JAbsent,
                            UDictCache(JNum(1), JNum(1), JNum(4), JAbsent))))}

InitSimpleTokens ==
    /\ \/ \E lines \in SeqsUpTo(SimpleTokenLines, MaxLines) :
                args_file = JsonlFile("f1", TRUE, lines)
       \/ args_file = JsonlFile("f1", FALSE, <<>>)
    /\ StartSimple

SpecSimpleTokens == InitSimpleTokens /\ [][NextSimple]_vars

(* Family 6: one file for the simple analyzer, with sessions and           *)
(* timestamps of every shape                                               *)

SimpleSessions == {JAbsent, JStr("a"), JStr("unknown")}

SimpleTimestamps ==
    {JAbsent, JStr("not-a-date"), JNum(5), JStr("2024-01-01T00:00:00"),
     JStr("2024-01-01T00:00:00Z"), JStr("2024-01-01T23:00:00-02:00"),
     JStr("2024-01-02T00:00:00Z")}

SimpleTimeLines ==
    {ObjectLine(Entry(id, JStr("user"), t, MAbsent)) :
        id \in SimpleSessions, t \in SimpleTimestamps}

InitSimpleSessions ==
    /\ \E lines \in SeqsUpTo(SimpleTimeLines, MaxLines) :
            args_file = JsonlFile("f1", TRUE, lines)
    /\ StartSimple

SpecSimpleSessions == InitSimpleSessions /\ [][NextSimple]_vars

(* Family 7: one conversation per line (no sessionId), with last           *)
(* activities of every shape, and directories of more conversations than   *)
(* the dashboard displays                                                  *)

DisplayTimestamps ==
    {JAbsent, JNum(5), JStr("2024-01-01T00:00:00Z"), JStr("2024-01-01T23:00:00-02:00"),
     JStr("2024-01-02T00:00:00Z")}

DisplayLine(t) == ObjectLine(Entry(JAbsent, JStr("user"), t, MDict(CStr(Abcd), JAbsent, UAbsent)))

DisplayLines == {DisplayLine(t) : t \in DisplayTimestamps}

\* DisplayLimit + 1 files of one conversation each: the first one is t, the
\* others are active at u
ManyFiles(t, u) ==
    [i \in 1..(DisplayLimit + 1) |->
        JsonlFile("f" \o ToString(i), TRUE, <<DisplayLine(IF i = 1 THEN t ELSE u)>>)]

\* a whole-file conversation of one user message
PlainJsonFile ==
    JsonFile("c1", TRUE,
             [k |-> "list",
              items |-> <<ObjectLine(Element(JAbsent, JStr("user"), CStr(Abcd),
                                             JStr("2024-01-01T00:00:00Z"), JAbsent))>>])

\* a second whole-file conversation
PlainJsonFile2 ==
    JsonFile("c2", TRUE,
             [k |-> "list",
              items |-> <<ObjectLine(Element(JAbsent, JStr("user"), CStr(Abcd),
                                             JAbsent, JAbsent))>>])

InitDisplay ==
    /\ json_files \in {<<>>, <<PlainJsonFile>>}
    /\ \/ \E lines \in SeqsUpTo(DisplayLines, MaxLines) :
                jsonl_files = <<JsonlFile("f1", TRUE, lines)>>
       \/ \E t \in DisplayTimestamps \ {JNum(5)} :
                jsonl_files = ManyFiles(t, JStr("2024-01-02T00:00:00Z"))
       \/ jsonl_files = ManyFiles(JStr("2024-01-02T00:00:00Z"), JAbsent)
    /\ now = 300
    /\ prev = [analyzed |-> FALSE, stats |-> EmptyStats]
    /\ Start

SpecDisplay == InitDisplay /\ [][Next]_vars

(* Family 8: model names on entries of every type                          *)

ModelNames == {JAbsent, JNull, JStr(""), JStr("m1"), JStr("m2")}

ModelLines ==
    {ObjectLine(Entry(JStr("a"), type, JAbsent, MDict(CStr(Abcd), model, UAbsent))) :
        type \in {JStr("user"), JStr("assistant")}, model \in ModelNames}

ModelElements ==
    {ObjectLine(Element(JAbsent, role, CStr(Abcd), JAbsent, model)) :
        role \in {JStr("user"), JStr("assistant")}, model \in ModelNames}

InitModels ==
    /\ \/ /\ json_files = <<>>
          /\ \E lines \in SeqsUpTo(ModelLines, MaxLines) :
                jsonl_files = <<JsonlFile("f1", TRUE, lines)>>
       \/ /\ \E items \in SeqsUpTo(ModelElements, MaxLines) :
                json_files = <<JsonFile("c1", TRUE, [k |-> "list", items |-> items])>>
          /\ jsonl_files = <<>>
    /\ now = 300
    /\ prev = [analyzed |-> FALSE, stats |-> EmptyStats]
    /\ Start

SpecModels == InitModels /\ [][Next]_vars

(* Family 9: assistant entries with content lists of every kind of part     *)

MaxParts == 2

ContentParts ==
    {TextPart(<<"a", "b">>), TextPart(<<"c", "\n", "d">>), TextPartOf(CAbsent),
     TextPartOf(CNull), ToolPart(CStr(Bash)), ToolPart(CAbsent), OtherPart, StrPart}

AssistantContents ==
    {CList(parts) : parts \in SeqsUpTo(ContentParts, MaxParts)} \cup {CStr(Abcd), CAbsent}

ContentLine(content) ==
    ObjectLine(Entry(JStr("a"), JStr("assistant"), JAbsent, MDict(content, JAbsent, UAbsent)))

ContentTails ==
    {<<>>,
     <<ContentLine(CStr(Hello))>>,
     <<ObjectLine(Entry(JStr("a"), JStr("user"), JAbsent, MDict(CStr(Abcd), JAbsent, UAbsent)))>>}

InitContent ==
    /\ json_files \in {<<>>, <<PlainJsonFile>>}
    /\ \E content \in AssistantContents, tail \in ContentTails :
          jsonl_files = <<JsonlFile("f1", TRUE, <<ContentLine(content)>> \o tail)>>
    /\ now = 300
    /\ prev = [analyzed |-> FALSE, stats |-> EmptyStats]
    /\ Start

SpecContent == InitContent /\ [][Next]_vars

(* Family 10: several sessions started on the same and on different days    *)

DailyTimestamps ==
    {JNull, JStr("not-a-date"), JNum(5), JStr("2024-01-01T00:00:00"),
     JStr("2024-01-01T23:00:00-02:00"), JStr("2024-01-02T00:00:00Z")}

DailyLines ==
    {ObjectLine(Entry(JStr("a"), JStr("user"), t, MDict(CStr(Text8), JAbsent, UAbsent))) :
        t \in DailyTimestamps}
    \cup
    {ObjectLine(Entry(JAbsent, JStr("user"), t, MDict(CStr(Abcd), JAbsent, UAbsent))) :
        t \in DailyTimestamps}

InitDaily ==
    /\ json_files \in {<<>>, <<PlainJsonFile>>}
    /\ \E lines \in SeqsUpTo(DailyLines, MaxLines) :
            jsonl_files = <<JsonlFile("f1", TRUE, lines)>>
    /\ now = 300
    /\ prev = [analyzed |-> FALSE, stats |-> EmptyStats]
    /\ Start

SpecDaily == InitDaily /\ [][Next]_vars

(* Family 11: .json files holding JSON values of every shape               *)

WholeElements ==
    {ObjectLine(Element(JAbsent, JStr("user"), CStr(Abcd), JAbsent, JAbsent)),
     ObjectLine(Element(JAbsent, JStr("assistant"), CStr(Hello), JAbsent, JStr("m1"))),
     ScalarLine}

WholeValues ==
    {[k |-> "list", items |-> items] : items \in SeqsUpTo(WholeElements, MaxLines)}
    \cup {[k |-> "dict_messages", items |-> items] : items \in SeqsUpTo(WholeElements, 2)}
    \cup {[k |-> "dict", items |-> <<element>>] : element \in WholeElements \ {ScalarLine}}
    \cup {[k |-> "dict_messages_null", items |-> <<>>],
          [k |-> "dict_messages_str", items |-> <<ScalarLine, ScalarLine>>],
          [k |-> "scalar", items |-> <<ScalarLine>>],
          [k |-> "malformed", items |-> <<>>]}

InitWhole ==
    /\ \E value \in WholeValues, readable \in BOOLEAN :
          json_files \in {<<JsonFile("c1", readable, value)>>,
                          <<JsonFile("c1", readable, value), PlainJsonFile2>>}
    /\ jsonl_files \in {<<>>,
                        <<JsonlFile("f1", TRUE,
                                    <<ObjectLine(Entry(JStr("a"), JStr("user"), JAbsent,
                                                       MDict(CStr(Abcd), JAbsent, UAbsent)))>>)>>}
    /\ now = 300
    /\ prev = [analyzed |-> FALSE, stats |-> EmptyStats]
    /\ Start

SpecWhole == InitWhole /\ [][Next]_vars

(* Family 12: conversations whose messages name projects, early and late    *)

ContextContents ==
    {<<"P", "y", "t", "h", "o", "n">>,
     <<"n", "p", "m">>,
     <<"f", "i", "x", " ", "d", "a", "t", "a">>,
     <<"r", "e", "a", "c", "t", " ", "w", "e", "b">>,
     \* a keyword behind the characters that are looked at
     Rep("x", ContextChars) \o <<"p", "y", "t", "h", "o", "n">>,
     \* a keyword cut in two by the limit
     Rep("x", ContextChars - 2) \o <<"d", "a", "t", "a">>}

ContextElements ==
    {ObjectLine(Element(JAbsent, JStr("user"), CStr(text), JAbsent, JAbsent)) :
        text \in ContextContents}

ContextLines ==
    {ObjectLine(Entry(JStr("a"), JStr("user"), JAbsent, MDict(CStr(text), JAbsent, UAbsent))) :
        text \in {<<"C", "S", "V">>, <<"a", " ", "b", "u", "g">>, Hello}}

InitContext ==
    /\ \/ /\ \E items \in SeqsUpTo(ContextElements, ContextMessages + 1) :
                json_files = <<JsonFile("c1", TRUE, [k |-> "list", items |-> items])>>
          /\ jsonl_files = <<>>
       \/ /\ json_files = <<>>
          /\ \E lines \in SeqsUpTo(ContextLines, 2) :
                jsonl_files = <<JsonlFile("f1", TRUE, lines)>>
    /\ now = 300
    /\ prev = [analyzed |-> FALSE, stats |-> EmptyStats]
    /\ Start

SpecContext == InitContext /\ [][Next]_vars

(* Family 13: entries that lack optional fields, read by either analyzer    *)

AbsentLines ==
    {BlankLine,
     ObjectLine(Entry(JAbsent, JAbsent, JAbsent, MAbsent)),
     ObjectLine(Entry(JStr("a"), JAbsent, JAbsent, MAbsent)),
     ObjectLine(Entry(JAbsent, JStr("user"), JAbsent, MAbsent)),
     ObjectLine(Entry(JStr("a"), JStr("assistant"), JAbsent, MAbsent)),
     ObjectLine(Entry(JStr("a"), JStr("user"), JStr("2024-01-01T00:00:00Z"),
                      MDict(CAbsent, JAbsent, UAbsent))),
     ObjectLine(Entry(JStr("a"), JStr("assistant"), JAbsent,
                      MDict(CAbsent, JAbsent, UAbsent))),
     ObjectLine(Entry(JStr("a"), JStr("assistant"), JStr("2024-01-02T00:00:00Z"),
                      MDict(CStr(Abcd), JAbsent, UAbsent))),
     ObjectLine(Entry(JAbsent, JStr("assistant"), JStr("2024-01-01T00:00:00Z"),
                      MDict(CAbsent, JStr("m1"), UDict(JNum(3), JNum(2))))),
     ObjectLine(Entry(JStr("a"), JStr("user"), JStr("2024-01-01T00:00:00Z"),
                      MDict(CStr(Abcd), JAbsent, UAbsent)))}

\* the same file is given to claude-analyzer-v2.py or to analyze_claude_usage.py
InitAbsent ==
    \E lines \in SeqsUpTo(AbsentLines, MaxLines) :
        \/ /\ json_files \in {<<>>, <<PlainJsonFile>>}
           /\ jsonl_files = <<JsonlFile("f1", TRUE, lines)>>
           /\ now = 300
           /\ prev = [analyzed |-> FALSE, stats |-> EmptyStats]
           /\ Start
        \/ /\ args_file = JsonlFile("f1", TRUE, lines)
           /\ StartSimple

NextEither == Next \/ NextSimple

SpecAbsent == InitAbsent /\ [][NextEither]_vars

----------------------------------------------------------------------------
(* What the claims speak of *)

\* load_conversation_data has returned
Loaded == pc \in {"loaded", "analyzed", "rendered", "done"}

AllFiles == json_files \o jsonl_files

IsJsonl(name) == \E i \in 1..Len(jsonl_files) : jsonl_files[i].name = name

FileNamed(name) == AllFiles[CHOOSE i \in 1..Len(AllFiles) : AllFiles[i].name = name]

\* the messages held, as <<conversation index, message index>>
Held ==
    UNION {{<<c, m>> : m \in 1..Len(conversations[c].messages)} : c \in 1..Len(conversations)}

PathOf(p) == conversations[p[1]].file_path

LineOf(p) == conversations[p[1]].messages[p[2]].line

\* the entry of the input a held message was built from
SourceOf(p) ==
    LET file == FileNamed(PathOf(p))
    IN  IF IsJsonl(file.name) THEN file.lines[LineOf(p)].entry
        ELSE file.data.items[LineOf(p)].entry

\* the conversations a file has contributed
From(file) == {c \in 1..Len(conversations) : conversations[c].file_path = file.name}

\* the session key process_jsonl_file files line n of a file under
KeyOfLine(file, n) == Get(file.lines[n].entry.sessionId, SyntheticKey(n))

ObjectLines(file) == {n \in 1..Len(file.lines) : file.lines[n].kind = "object"}

\* the file cannot be read line by line to its end: open fails, or a line is JSON
\* but no object
ReadFails(file) ==
    ~file.readable \/ \E n \in 1..Len(file.lines) : file.lines[n].kind = "scalar"

IsPrefix(short, long) ==
    /\ Len(short) <= Len(long)
    /\ \A i \in 1..Len(short) : short[i] = long[i]

----------------------------------------------------------------------------
(* C1: parsing a line-delimited file yields exactly one entry per non-     *)
(* blank line that is valid JSON, in file order; a line that does not      *)
(* parse is skipped and never aborts the file.  Stated of                  *)
(* process_jsonl_file, for the files whose objects are all well typed:     *)
(* once loading is over, every valid line of the file is the source of     *)
(* exactly one message, every other line of none, and the messages of a    *)
(* conversation follow the order of the lines.                             *)
C1_OneEntryPerValidLine ==
    Loaded =>
        \A i \in 1..Len(jsonl_files) :
            LET file == jsonl_files[i]
            IN  (/\ file.readable
                 /\ \A n \in ObjectLines(file) : file.lines[n].entry.message.k # "str")
                => /\ \A n \in 1..Len(file.lines) :
                        Cardinality({p \in Held : PathOf(p) = file.name /\ LineOf(p) = n})
                            = IF file.lines[n].kind \in {"scalar", "object"} THEN 1 ELSE 0
                   /\ \A p \in Held, q \in Held :
                        (p[1] = q[1] /\ PathOf(p) = file.name /\ p[2] < q[2])
                            => LineOf(p) < LineOf(q)

(* C2, as claimed: any two loaded entries with the same sessionId are in   *)
(* the same conversation, any two with different sessionIds in different   *)
(* conversations, whatever files they come from.                           *)
C2_SessionIdDecidesConversation ==
    \A p \in Held, q \in Held :
        (SourceOf(p).sessionId.k = "str" /\ SourceOf(q).sessionId.k = "str")
            => (SourceOf(p).sessionId = SourceOf(q).sessionId <=> p[1] = q[1])

(* C2, amended: a conversation never spans two files; within one JSONL     *)
(* file, two entries that carry a sessionId are in the same conversation   *)
(* exactly when their sessionIds are equal.                                *)
C2_SessionIdDecidesWithinJsonlFile ==
    \A p \in Held, q \in Held :
        /\ PathOf(p) # PathOf(q) => p[1] # q[1]
        /\ (/\ PathOf(p) = PathOf(q)
            /\ IsJsonl(PathOf(p))
            /\ SourceOf(p).sessionId.k = "str"
            /\ SourceOf(q).sessionId.k = "str")
           => (SourceOf(p).sessionId = SourceOf(q).sessionId <=> p[1] = q[1])

\* two entries of f1 share a session, a third session of f1 stands apart, and f2
\* holds the same sessionId in a conversation of its own
C2_Witness ==
    /\ Loaded
    /\ \E p \in Held, q \in Held, r \in Held, t \in Held :
        /\ PathOf(p) = "f1.jsonl" /\ PathOf(q) = "f1.jsonl" /\ PathOf(r) = "f1.jsonl"
        /\ PathOf(t) = "f2.jsonl"
        /\ p[1] = q[1] /\ p[2] # q[2]
        /\ SourceOf(p).sessionId = JStr("a") /\ SourceOf(q).sessionId = JStr("a")
        /\ SourceOf(r).sessionId = JStr("session_2") /\ r[1] # p[1]
        /\ SourceOf(t).sessionId = JStr("a") /\ t[1] # p[1]

(* C9: an entry without a sessionId forms a conversation of exactly one    *)
(* message and is never merged with another entry of the file.             *)
C9_EntryWithoutSessionIdStandsAlone ==
    \A p \in Held :
        (IsJsonl(PathOf(p)) /\ SourceOf(p).sessionId.k = "absent")
            => Len(conversations[p[1]].messages) = 1

----------------------------------------------------------------------------
(* C3: every conversation's total_tokens is the sum of the tokens of its   *)
(* messages, after reconstruction and after any later calls of             *)
(* analyze_usage_patterns and generate_enhanced_html.                      *)
C3_TotalTokensIsSumOfMessages ==
    \A c \in 1..Len(conversations) :
        conversations[c].total_tokens
            = Sum([m \in 1..Len(conversations[c].messages) |->
                        conversations[c].messages[m].tokens])

\* analyzed and rendered: a session of several messages with tokens, and a file
\* conversation whose long message was cut for display after it was counted
C3_Witness ==
    /\ analyzed /\ rendered
    /\ \E c \in 1..Len(conversations) :
        /\ IsJsonl(conversations[c].file_path)
        /\ Len(conversations[c].messages) >= 2
        /\ conversations[c].total_tokens > 0
    /\ \E c \in 1..Len(conversations) :
        /\ ~IsJsonl(conversations[c].file_path)
        /\ Len(conversations[c].messages) >= 2
        /\ \E m \in 1..Len(conversations[c].messages) :
            /\ Len(conversations[c].messages[m].content.s) = DisplayChars
            /\ conversations[c].messages[m].tokens
                    > estimate_tokens(conversations[c].messages[m].content)

(* C4: two runs on the same input yield the same usage_stats but for the   *)
(* statuses breakdown, whatever the clocks of the two runs.                *)
SansStatuses(stats) == [stats EXCEPT !.statuses = <<>>]

C4_StatsIndependentOfClock ==
    (analyzed /\ prev.analyzed) => SansStatuses(usage_stats) = SansStatuses(prev.stats)

\* two analyzed runs whose statuses differ, over conversations with dates
C4_Witness ==
    /\ analyzed /\ prev.analyzed
    /\ ~usage_stats.empty /\ ~prev.stats.empty
    /\ usage_stats.total_conversations >= 2
    /\ DOMAIN usage_stats.daily_usage # {}
    /\ \E c \in 1..Len(conversations) :
            \/ conversations[c].status \notin DOMAIN prev.stats.statuses
            \/ /\ conversations[c].status \in DOMAIN prev.stats.statuses
               /\ prev.stats.statuses[conversations[c].status]
                    # usage_stats.statuses[conversations[c].status]

(* C5: for every entry of every type the message's tokens are              *)
(* input_tokens + output_tokens (a missing one counted as 0) whenever      *)
(* message.usage is present, and len(content) // 4 only when it is absent. *)
C5_TokensFromUsageWheneverPresent ==
    ~rendered =>
        \A p \in Held :
            IsJsonl(PathOf(p)) =>
                LET usage == SourceOf(p).message.usage
                    msg == conversations[p[1]].messages[p[2]]
                IN  msg.tokens =
                        IF SourceOf(p).message.k = "dict" /\ usage.k = "dict"
                        THEN Get(usage.input_tokens, JNum(0)).n
                                + Get(usage.output_tokens, JNum(0)).n
                        ELSE Len(StrOf(msg.content)) \div CharsPerToken

(* C6: with a parseable last_activity the status is 'active' exactly when  *)
(* less than 5 minutes have elapsed since it, 'recent' from 5 minutes to   *)
(* less than 1 hour, 'inactive' from 1 hour on.  Stated for timestamps     *)
(* that carry a UTC offset.                                                *)
StatusOfElapsed(elapsed) ==
    IF elapsed < ActiveSeconds THEN "active"
    ELSE IF elapsed < RecentSeconds THEN "recent"
    ELSE "inactive"

Aware(t) == t.k = "str" /\ Parses(t.s) /\ IsoTable[t.s].aware

C6_StatusFollowsElapsedTime ==
    \A c \in 1..Len(conversations) :
        Aware(conversations[c].last_activity)
            => conversations[c].status
                = StatusOfElapsed(now - IsoTable[conversations[c].last_activity.s].instant)

(* C7: determine_conversation_status never raises; it returns 'unknown'    *)
(* when last_activity is missing or cannot be parsed, so reconstruction    *)
(* completes: a file of this family fails only where the timestamps of a   *)
(* session cannot be sorted.                                               *)
SessionKeys(entries) == [i \in 1..Len(entries) |-> Get(entries[i].timestamp, JStr(""))]

C7_StatusNeverRaises ==
    /\ \A c \in 1..Len(conversations) :
        /\ conversations[c].status \in {"unknown", "active", "recent", "inactive"}
        /\ (\/ ~Truthy(conversations[c].last_activity)
            \/ conversations[c].last_activity.k # "str"
            \/ ~Parses(conversations[c].last_activity.s))
           => conversations[c].status = "unknown"
    /\ \A name \in failed :
        /\ IsJsonl(name)
        /\ LET groups == ReadLines(FileNamed(name).lines, 1, <<>>).groups
           IN  \E g \in 1..Len(groups) : SortRaises(SessionKeys(groups[g].entries))

\* a conversation whose last_activity is text that is no timestamp, and one whose
\* last_activity is a number, both built and classified 'unknown'
C7_Witness ==
    /\ Loaded /\ failed = {}
    /\ \E c \in 1..Len(conversations) :
        /\ Truthy(conversations[c].last_activity)
        /\ \/ conversations[c].last_activity = JStr("not-a-date")
           \/ conversations[c].last_activity = JNum(5)
        /\ conversations[c].status = "unknown"

(* C8: created_at is the minimum and last_activity the maximum of the      *)
(* timestamps of the conversation's timestamped messages, and both are     *)
(* null exactly when no message carries a timestamp.  Stated for           *)
(* conversations whose timestamps all carry a UTC offset.                  *)
Stamped(conv) == {m \in 1..Len(conv.messages) : Truthy(conv.messages[m].timestamp)}

InstantOf(t) == IsoTable[t.s].instant

C8_CreatedIsMinLastIsMax ==
    \A c \in 1..Len(conversations) :
        LET conv == conversations[c]
        IN  /\ Stamped(conv) = {} <=> (conv.created_at = JNull /\ conv.last_activity = JNull)
            /\ (Stamped(conv) # {} /\ \A m \in Stamped(conv) : Aware(conv.messages[m].timestamp))
                => /\ \A m \in Stamped(conv) :
                        /\ InstantOf(conv.created_at) <= InstantOf(conv.messages[m].timestamp)
                        /\ InstantOf(conv.last_activity) >= InstantOf(conv.messages[m].timestamp)
                   /\ \E m \in Stamped(conv) : conv.created_at = conv.messages[m].timestamp
                   /\ \E m \in Stamped(conv) : conv.last_activity = conv.messages[m].timestamp

----------------------------------------------------------------------------
(* C11 *)

\* a line-delimited file that can be read and holds no line that parses
HoldsNoEntry(f) ==
    f.readable /\ \A n \in 1..Len(f.lines) : f.lines[n].kind \in {"blank", "invalid"}

\* the input of the program that runs holds zero valid entries
ZeroValidEntries ==
    \/ /\ pc # "idle"
       /\ json_files = <<>>
       /\ \A i \in 1..Len(jsonl_files) : HoldsNoEntry(jsonl_files[i])
    \/ /\ spc # "idle"
       /\ HoldsNoEntry(args_file)

\* main() has ended, by returning, by sys.exit or by an exception
Ended == pc \in {"done", "render_failed", "crashed"} \/ spc \in {"done", "exited", "crashed"}

\* C11: a run on an input of zero valid entries ends by saying that there is no
\* data, with a failing exit code, without an aggregation or a report over the
\* empty data, and without an unhandled exception
C11_NoDataEndsInFailure ==
    (Ended /\ ZeroValidEntries) =>
        /\ printed \cap {"no_files", "no_valid_data"} # {}
        /\ exit_code = 1
        /\ printed \cap {"dashboard", "report"} = {}
        /\ ~analyzed /\ ~rendered /\ ~analysis.done
        /\ pc \notin {"render_failed", "crashed"} /\ spc # "crashed"

----------------------------------------------------------------------------
(* C12 *)

\* generate_enhanced_html has been called, and has returned or raised
RenderingTried == pc \in {"rendered", "done", "render_failed"}

\* conversation c is in the list the dashboard embeds
Displayed(c) ==
    \E k \in 1..Len(display) :
        /\ display[k].id = conversations[c].id
        /\ display[k].file_path = conversations[c].file_path

HasActivity(c) == Truthy(conversations[c].last_activity)

\* both last activities denote an instant, and that of c is the later one
LaterActive(c, d) ==
    /\ Aware(conversations[c].last_activity) /\ Aware(conversations[d].last_activity)
    /\ InstantOf(conversations[c].last_activity) > InstantOf(conversations[d].last_activity)

\* C12: the embedded list has min(50, N) conversations, no omitted conversation
\* was active later than an included one, and a conversation without
\* last_activity is included only when every conversation that has one is
C12_DisplayIsFiftyMostRecent ==
    RenderingTried =>
        /\ pc # "render_failed"
        /\ Len(display) = IF Len(conversations) < DisplayLimit
                          THEN Len(conversations) ELSE DisplayLimit
        /\ \A c, d \in 1..Len(conversations) :
                (Displayed(d) /\ ~Displayed(c)) =>
                    /\ ~LaterActive(c, d)
                    /\ HasActivity(d) \/ ~HasActivity(c)

----------------------------------------------------------------------------
(* C13 *)

\* C13: once load_conversation_data has returned, no step of the run changes
\* self.conversations: neither a conversation's fields nor the role, content,
\* timestamp or tokens of any of its messages
C13_ConversationsImmutableOnceLoaded ==
    [][(pc \in {"loaded", "analyzed", "rendered"}) => (conversations' = conversations)]_vars

----------------------------------------------------------------------------
(* C14 *)

\* the conversations that process_session_entries has built
OfSessions == {c \in 1..Len(conversations) : IsJsonl(conversations[c].file_path)}

\* C14: the messages of a session are in ascending order of the instants their
\* timestamps denote, the entries that lack a timestamp come before all that
\* have one, and a file whose entries have a timestamp string or none is sorted
\* without a failure
C14_MessagesInInstantOrder ==
    /\ \A c \in OfSessions :
            LET messages == conversations[c].messages
            IN  \A i, j \in 1..Len(messages) :
                    i < j =>
                        /\ (Aware(messages[i].timestamp) /\ Aware(messages[j].timestamp))
                                => InstantOf(messages[i].timestamp)
                                        <= InstantOf(messages[j].timestamp)
                        /\ SourceOf(<<c, j>>).timestamp = JAbsent
                                => ~Truthy(messages[i].timestamp)
    /\ \A f \in 1..Len(jsonl_files) :
            (/\ Loaded
             /\ jsonl_files[f].readable
             /\ \A n \in 1..Len(jsonl_files[f].lines) :
                    /\ jsonl_files[f].lines[n].kind = "object"
                    /\ jsonl_files[f].lines[n].entry.timestamp.k \in {"absent", "str"}
                    /\ jsonl_files[f].lines[n].entry.message.k \in {"absent", "dict"})
                => jsonl_files[f].name \notin failed

----------------------------------------------------------------------------
(* C15 *)

\* the model name that the entry behind a held message carries, and whether
\* that entry is an assistant message
ModelOfSource(p) ==
    IF IsJsonl(PathOf(p)) THEN SourceOf(p).message.model ELSE SourceOf(p).model

IsAssistantSource(p) ==
    IF IsJsonl(PathOf(p)) THEN SourceOf(p).type = JStr("assistant")
    ELSE SourceOf(p).role = JStr("assistant")

\* the messages of conversation c that are assistant messages with a non-empty model
Naming(c) ==
    {m \in 1..Len(conversations[c].messages) :
        IsAssistantSource(<<c, m>>) /\ Truthy(ModelOfSource(<<c, m>>))}

\* C15: a conversation's model is the model of its last assistant message that
\* carries a non-empty one, and 'unknown' when there is none
C15_ModelIsLastAssistantModel ==
    \A c \in 1..Len(conversations) :
        conversations[c].model =
            IF Naming(c) = {} THEN JStr("unknown")
            ELSE ModelOfSource(<<c, CHOOSE m \in Naming(c) : \A other \in Naming(c) : other <= m>>)

----------------------------------------------------------------------------
(* C16 *)

\* the line one part contributes: its text for a text part, its marker for a
\* tool_use part
PartLine(part) ==
    IF part.type = "text" THEN (IF part.text.k = "str" THEN part.text.s ELSE <<>>)
    ELSE <<"[", "T", "o", "o", "l", ":", " ">>
         \o (IF part.name.k = "str" THEN part.name.s
             ELSE <<"u", "n", "k", "n", "o", "w", "n", "_", "t", "o", "o", "l">>)
         \o <<"]">>

Contributing(parts) ==
    SelectSeq(parts, LAMBDA part : part.k = "dict" /\ part.type \in {"text", "tool_use"})

\* the first count contributing lines, a newline between neighbours
RECURSIVE JoinedUpTo(_, _)
JoinedUpTo(parts, count) ==
    IF count = 0 THEN <<>>
    ELSE IF count = 1 THEN PartLine(parts[1])
    ELSE JoinedUpTo(parts, count - 1) \o <<"\n">> \o PartLine(parts[count])

\* the held messages that come from assistant entries of session files, before
\* the rendering shortens them
AssistantMessages ==
    {p \in Held : IsJsonl(PathOf(p)) /\ SourceOf(p).type = JStr("assistant")}

\* C16: the content of an assistant message with list content is the
\* newline-join, in part order, of the texts of its text parts and the
\* '[Tool: <name>]' markers of its tool_use parts ('unknown_tool' without a
\* name), nothing else contributing; one tool_use part named Bash alone gives
\* '[Tool: Bash]'; a string content is kept verbatim
C16_AssistantContentIsJoinedParts ==
    pc \in {"load_json", "load_jsonl", "loaded", "analyzed"} =>
        \A p \in AssistantMessages :
            LET content == SourceOf(p).message.content
                held == conversations[p[1]].messages[p[2]].content
            IN  /\ content.k = "list" =>
                    /\ held.k = "str"
                    /\ held.s = JoinedUpTo(Contributing(content.parts),
                                           Len(Contributing(content.parts)))
                /\ content = CList(<<ToolPart(CStr(Bash))>>) =>
                    held = CStr(<<"[", "T", "o", "o", "l", ":", " ", "B", "a", "s", "h", "]">>)
                /\ content.k = "str" => held = content

\* a text part and a tool part joined, with a part that contributes nothing
C16_Witness ==
    /\ pc = "loaded"
    /\ \E p \in AssistantMessages :
          /\ SourceOf(p).message.content = CList(<<TextPart(<<"a", "b">>), ToolPart(CAbsent)>>)
          /\ conversations[p[1]].messages[p[2]].content.s =
                <<"a", "b", "\n", "[", "T", "o", "o", "l", ":", " ",
                  "u", "n", "k", "n", "o", "w", "n", "_", "t", "o", "o", "l", "]">>
    /\ \E p \in AssistantMessages :
          SourceOf(p).message.content.k = "str"

----------------------------------------------------------------------------
(* C17 *)

\* analyze_usage_patterns has run on the conversations now loaded
Analysed == pc \in {"analyzed", "rendered", "done", "render_failed"}

\* the sum of the values a mapping has on the given keys
RECURSIVE SumOn(_, _)
SumOn(mapping, keys) ==
    IF keys = {} THEN 0
    ELSE LET key == CHOOSE k \in keys : TRUE
         IN  mapping[key] + SumOn(mapping, keys \ {key})

\* the number of messages in the first count conversations
RECURSIVE MessagesUpTo(_)
MessagesUpTo(count) ==
    IF count = 0 THEN 0 ELSE MessagesUpTo(count - 1) + Len(conversations[count].messages)

RECURSIVE TokensUpTo(_)
TokensUpTo(count) ==
    IF count = 0 THEN 0 ELSE TokensUpTo(count - 1) + conversations[count].total_tokens

\* the totals and the three mappings agree with the conversations
StatsAgree ==
    /\ ~usage_stats.empty
    /\ usage_stats.total_conversations = Len(conversations)
    /\ usage_stats.total_messages = MessagesUpTo(Len(conversations))
    /\ usage_stats.total_tokens = TokensUpTo(Len(conversations))
    /\ \A c \in 1..Len(conversations) :
          /\ conversations[c].model \in DOMAIN usage_stats.models
          /\ conversations[c].project_context \in DOMAIN usage_stats.projects
          /\ conversations[c].status \in DOMAIN usage_stats.statuses
    /\ SumOn(usage_stats.models, DOMAIN usage_stats.models) = Len(conversations)
    /\ SumOn(usage_stats.projects, DOMAIN usage_stats.projects) = Len(conversations)
    /\ SumOn(usage_stats.statuses, DOMAIN usage_stats.statuses) = Len(conversations)

----------------------------------------------------------------------------
(* C18 *)

\* the conversations whose created_at is a timestamp that can be parsed
Dated ==
    {c \in 1..Len(conversations) :
        /\ conversations[c].created_at.k = "str"
        /\ conversations[c].created_at.s \in DOMAIN IsoTable}

StartedOn(d) == {c \in Dated : IsoTable[conversations[c].created_at.s].date = d}

\* the total_tokens of a set of conversations
RECURSIVE TokensOf(_)
TokensOf(cs) ==
    IF cs = {} THEN 0
    ELSE LET c == CHOOSE x \in cs : TRUE
         IN  conversations[c].total_tokens + TokensOf(cs \ {c})

RECURSIVE DailySum(_, _)
DailySum(field, dates) ==
    IF dates = {} THEN 0
    ELSE LET d == CHOOSE x \in dates : TRUE
         IN  (IF field = "conversations" THEN usage_stats.daily_usage[d].conversations
              ELSE usage_stats.daily_usage[d].tokens)
             + DailySum(field, dates \ {d})

\* C18: daily_usage counts each conversation with a parseable created_at once,
\* under the calendar date created_at is written with, and adds its
\* total_tokens there; the others are left out, so the counts sum to the number
\* of dated conversations and the tokens to their total_tokens
C18_DailyUsageBucketsByDate ==
    Analysed /\ conversations # <<>> =>
        /\ DOMAIN usage_stats.daily_usage = {d \in {"2024-01-01", "2024-01-02"} : StartedOn(d) # {}}
        /\ \A d \in DOMAIN usage_stats.daily_usage :
              /\ usage_stats.daily_usage[d].conversations = Cardinality(StartedOn(d))
              /\ usage_stats.daily_usage[d].tokens = TokensOf(StartedOn(d))
        /\ DailySum("conversations", DOMAIN usage_stats.daily_usage) = Cardinality(Dated)
        /\ DailySum("tokens", DOMAIN usage_stats.daily_usage) = TokensOf(Dated)

\* two conversations on one day, one on another, one left out
C18_Witness ==
    /\ pc = "analyzed"
    /\ Cardinality(StartedOn("2024-01-01")) >= 2
    /\ StartedOn("2024-01-02") # {}
    /\ \E c \in StartedOn("2024-01-01") :
          conversations[c].created_at = JStr("2024-01-01T23:00:00-02:00")
    /\ \E c \in 1..Len(conversations) : c \notin Dated
    /\ usage_stats.daily_usage["2024-01-01"].tokens >= 2

----------------------------------------------------------------------------
(* C19 *)

\* the five analyses have returned
Reported == spc \in {"output", "done"} /\ analysis.done

\* the entries read from the file that carry a usage object
WithUsage ==
    SelectSeq(data.items,
              LAMBDA item : item.entry.message.k = "dict"
                            /\ item.entry.message.usage.k = "dict")

\* input_tokens + output_tokens of an entry, a missing count being 0
CountOf(item) ==
    (IF item.entry.message.usage.input_tokens.k = "num"
     THEN item.entry.message.usage.input_tokens.n ELSE 0)
    + (IF item.entry.message.usage.output_tokens.k = "num"
       THEN item.entry.message.usage.output_tokens.n ELSE 0)

Counted == SelectSeq(WithUsage, LAMBDA item : CountOf(item) > 0)

\* C19: the distribution of analyze_tokens holds exactly the messages with more
\* than zero tokens; one with zero tokens is left out of it but counted in
\* messages_with_usage and in the totals, so the distribution sums to
\* total_input_tokens + total_output_tokens and is no longer than
\* messages_with_usage; min, avg and max exist only for a non-empty distribution
C19_DistributionHoldsPositiveCounts ==
    Reported =>
        LET token_stats == analysis.token_stats
            tokens == token_stats.token_distribution
        IN  /\ tokens = [i \in 1..Len(Counted) |-> CountOf(Counted[i])]
            /\ token_stats.messages_with_usage = Len(WithUsage)
            /\ Sum(tokens) = token_stats.total_input_tokens + token_stats.total_output_tokens
            /\ Len(tokens) <= token_stats.messages_with_usage
            /\ token_stats.has_distribution_stats <=> tokens # <<>>
            /\ tokens # <<>> =>
                /\ token_stats.avg_tokens_per_message = <<Sum(tokens), Len(tokens)>>
                /\ \A i \in 1..Len(tokens) :
                      /\ token_stats.min_tokens_per_message <= tokens[i]
                      /\ tokens[i] <= token_stats.max_tokens_per_message
                /\ \E i \in 1..Len(tokens) : tokens[i] = token_stats.min_tokens_per_message
                /\ \E i \in 1..Len(tokens) : tokens[i] = token_stats.max_tokens_per_message

\* a message with zero tokens next to messages with different positive counts
C19_Witness ==
    /\ Reported
    /\ \E i \in 1..Len(WithUsage) : CountOf(WithUsage[i]) = 0
    /\ Len(analysis.token_stats.token_distribution) = 2
    /\ analysis.token_stats.messages_with_usage = 3
    /\ analysis.token_stats.min_tokens_per_message < analysis.token_stats.max_tokens_per_message

\* no message has more than zero tokens: no min, avg or max
C19_WitnessEmpty ==
    /\ Reported
    /\ analysis.token_stats.messages_with_usage > 0
    /\ ~analysis.token_stats.has_distribution_stats

----------------------------------------------------------------------------
(* C20 *)

SessionOf(item) ==
    IF item.entry.sessionId.k = "absent" THEN JStr("unknown") ELSE item.entry.sessionId

\* the instants of the parseable timestamps of a session, by position in the file
TimedIn(session) ==
    {i \in 1..Len(data.items) :
        /\ SessionOf(data.items[i]) = session
        /\ data.items[i].entry.timestamp.k = "str"
        /\ data.items[i].entry.timestamp.s \in DOMAIN IsoTable}

InstantAt(i) == IsoTable[data.items[i].entry.timestamp.s].instant

\* the sessions with two or more parseable timestamps
TimedSessions ==
    {session \in {SessionOf(data.items[i]) : i \in 1..Len(data.items)} :
        Cardinality(TimedIn(session)) >= 2}

\* the seconds between the earliest and the latest timestamp of a session
Span(session) ==
    LET latest == CHOOSE i \in TimedIn(session) :
                        \A j \in TimedIn(session) : InstantAt(j) <= InstantAt(i)
        earliest == CHOOSE i \in TimedIn(session) :
                        \A j \in TimedIn(session) : InstantAt(i) <= InstantAt(j)
    IN  InstantAt(latest) - InstantAt(earliest)

\* C20: analyze_sessions yields one duration sample for each session with two
\* or more parseable timestamps, the latest minus the earliest and so never
\* negative; a session with fewer yields none, and no timestamp makes it raise
C20_OneDurationPerTimedSession ==
    /\ spc # "crashed"
    /\ Reported =>
        LET samples == analysis.session_stats.session_durations
        IN  /\ Len(samples) = Cardinality(TimedSessions)
            /\ \A session \in TimedSessions :
                  \E i \in 1..Len(samples) : samples[i] = <<Span(session), SecondsPerMinute>>
            /\ \A i \in 1..Len(samples) : samples[i][1] >= 0

----------------------------------------------------------------------------
(* C21 *)

\* the .json files that hold a JSON array or a JSON object
ArrayOrObject ==
    {i \in 1..Len(json_files) :
        /\ json_files[i].readable
        /\ json_files[i].data.k \in {"list", "dict_messages", "dict_messages_null",
                                     "dict_messages_str", "dict"}}

\* the number of messages the file's value stands for: the elements of an
\* array or of the messages array of an object, one for any other object
MessagesIn(value) ==
    IF value.k \in {"list", "dict_messages"} THEN Len(value.items) ELSE 1

\* C21: whole-file mode yields exactly one conversation per JSON file, with one
\* message per element of the array, or of the messages array of an object, and
\* with the whole object as its only message otherwise
C21_OneConversationPerJsonFile ==
    Loaded =>
        \A i \in ArrayOrObject :
            /\ Cardinality(From(json_files[i])) = 1
            /\ \A c \in From(json_files[i]) :
                  Len(conversations[c].messages) = MessagesIn(json_files[i].data)

----------------------------------------------------------------------------
(* C22 *)

RuleOrder == <<"python", "javascript", "react", "web", "debugging", "data">>

\* the characters of message m of conversation c that are looked at, lowered
Looked(c, m) ==
    IF m > Len(conversations[c].messages) THEN <<>>
    ELSE LET text == conversations[c].messages[m].content.s
         IN  [i \in 1..(IF Len(text) < ContextChars THEN Len(text) ELSE ContextChars) |->
                Lower(text[i])]

Sampled(c) == Looked(c, 1) \o Looked(c, 2) \o Looked(c, 3)

\* a keyword of the rule occurs in the sample
RuleMatches(sample, label) ==
    \E r \in 1..Len(ContextRules) :
        /\ ContextRules[r].label = label
        /\ \E t \in 1..Len(ContextRules[r].terms) :
              LET term == ContextRules[r].terms[t]
              IN  \E at \in 0..(Len(sample) - Len(term)) :
                      \A j \in 1..Len(term) : sample[at + j] = term[j]

\* the rules, by their place in the order, that match conversation c
Matching(sample) == {n \in 1..Len(RuleOrder) : RuleMatches(sample, RuleOrder[n])}

\* C22: the project context is the label of the first rule, in the order
\* python, javascript, react, web, debugging, data, that has a keyword in the
\* lowered first 500 characters of the first 3 messages, and 'general' when no
\* rule has one
C22_ContextIsFirstMatchingRule ==
    pc \in {"load_json", "load_jsonl", "loaded", "analyzed"} =>
        \A c \in 1..Len(conversations) :
            LET matching == Matching(Sampled(c))
            IN  conversations[c].project_context =
                    IF matching = {} THEN "general"
                    ELSE RuleOrder[CHOOSE n \in matching : \A other \in matching : n <= other]

\* two rules match and the earlier wins, while a keyword in capitals in the
\* fourth message and one behind the first 500 characters are not seen
C22_Witness ==
    /\ pc = "loaded"
    /\ \E c \in 1..Len(conversations) :
          /\ Len(conversations[c].messages) = 4
          /\ Len(conversations[c].messages[1].content.s) > ContextChars
          /\ conversations[c].messages[4].content.s = <<"P", "y", "t", "h", "o", "n">>
          /\ {5, 6} \subseteq Matching(Sampled(c))
          /\ conversations[c].project_context = "debugging"

\* a keyword in capitals is found
C22_WitnessCapitals ==
    /\ pc = "loaded"
    /\ \E c \in 1..Len(conversations) :
          /\ conversations[c].messages[1].content.s = <<"P", "y", "t", "h", "o", "n">>
          /\ conversations[c].project_context = "python"

----------------------------------------------------------------------------
(* C23 *)

\* the entries of a session file filed under a session key
EntriesUnder(file, key) == {n \in ObjectLines(file) : KeyOfLine(file, n) = key}

\* C23: entries that lack optional fields abort nothing: the file is not
\* dropped, every entry has exactly one message, a conversation has as many
\* messages as its session had entries, the role is 'unknown' when type is
\* absent and the content empty when message is absent; the simple analyzer
\* counts every such entry too
C23_AbsentFieldsAbortNothing ==
    /\ pc \notin {"crashed"} /\ spc # "crashed"
    /\ Loaded =>
        \A f \in 1..Len(jsonl_files) :
            LET file == jsonl_files[f]
            IN  /\ file.name \notin failed
                /\ \A n \in ObjectLines(file) :
                      Cardinality({p \in Held : PathOf(p) = file.name /\ LineOf(p) = n}) = 1
                /\ \A c \in From(file) :
                      Len(conversations[c].messages)
                        = Cardinality(EntriesUnder(file, conversations[c].id))
                /\ \A p \in Held :
                      PathOf(p) = file.name =>
                        /\ SourceOf(p).type = JAbsent =>
                              conversations[p[1]].messages[p[2]].role = JStr("unknown")
                        /\ SourceOf(p).message = MAbsent =>
                              conversations[p[1]].messages[p[2]].content = CStr(<<>>)
    /\ Reported =>
        /\ analysis.basic_stats.total_messages = Cardinality(ObjectLines(args_file))
        /\ analysis.session_stats.total_sessions = analysis.basic_stats.unique_sessions

\* a session of three entries, one without a type and one without a message
C23_Witness ==
    /\ pc = "loaded"
    /\ \E c \in 1..Len(conversations) :
          /\ Len(conversations[c].messages) = 3
          /\ \E m \in 1..3 : SourceOf(<<c, m>>).type = JAbsent
          /\ \E m \in 1..3 : SourceOf(<<c, m>>).message = MAbsent
          /\ \E m \in 1..3 : SourceOf(<<c, m>>).message.content = CStr(Abcd)

\* the simple analyzer has counted an entry without any optional field
C23_WitnessSimple ==
    /\ Reported
    /\ \E n \in ObjectLines(args_file) :
          args_file.lines[n].entry = Entry(JAbsent, JAbsent, JAbsent, MAbsent)

----------------------------------------------------------------------------
(* C24 *)

\* the sessions of the data, an entry without sessionId belonging to 'unknown'
SessionsOfData == {SessionOf(data.items[i]) : i \in 1..Len(data.items)}

EntriesOf(session) == {i \in 1..Len(data.items) : SessionOf(data.items[i]) = session}

\* the two views of the data agree
ViewsAgree ==
    LET per_session == analysis.session_stats.messages_per_session
    IN  /\ analysis.session_stats.total_sessions = analysis.basic_stats.unique_sessions
        /\ analysis.session_stats.total_sessions = Cardinality(SessionsOfData)
        /\ Len(per_session) = analysis.session_stats.total_sessions
        /\ \A g \in 1..Len(per_session) : per_session[g] >= 1
        /\ Sum(per_session) = analysis.basic_stats.total_messages
        /\ \A session \in SessionsOfData :
              \E g \in 1..Len(per_session) :
                  per_session[g] = Cardinality(EntriesOf(session))
        /\ (\E i \in 1..Len(data.items) : data.items[i].entry.sessionId = JAbsent) =>
              \E g \in 1..Len(per_session) :
                  per_session[g] =
                    Cardinality({i \in 1..Len(data.items) :
                                    data.items[i].entry.sessionId
                                        \in {JAbsent, JStr("unknown")}})

\* C24: the session view and the basic view of the simple analyzer always
\* agree: analyze_sessions returns for the data analyze_basic_stats has counted,
\* total_sessions equals unique_sessions, messages_per_session has one element
\* of at least 1 for each session, they sum to total_messages, and the entries
\* without sessionId are counted together as the one session 'unknown'
C24_SessionViewAgreesWithBasicView ==
    /\ spc # "crashed"
    /\ Reported => ViewsAgree

====
